---------------------------- MODULE Spec2Model ----------------------------
(***************************************************************************)
(* A model of the Daily Boost Bot: the per-user conversation state machine *)
(* (handlers/commands.py, handlers/messages.py) over the SQLite gateway    *)
(* (database.py).                                                          *)
(*                                                                         *)
(* Texts are sequences of characters (one-character strings).  A character *)
(* outside ASCII is written by its code point, e.g. "U+274C".  Handlers    *)
(* are operators from a world (session dictionaries, tables, the last      *)
(* outbound reply) to the world after the event; the actions at the end    *)
(* apply them to inputs drawn from small sets.                             *)
(***************************************************************************)
EXTENDS Integers, Sequences, FiniteSets, TLC

VARIABLES user_data, users, mood_logs, habits, habit_logs, ids, today, out,
          tin, tres, script, pc

vars == <<user_data, users, mood_logs, habits, habit_logs, ids, today, out,
          tin, tres, script, pc>>

(***************************************************************************)
(* Python values                                                           *)
(***************************************************************************)

\* None where a text is expected (no text is a sequence holding this atom)
NoneText == <<"<None>">>

\* None where an integer is expected
NoneInt == -1

\* an empty dict
EmptyDict == [k \in {} |-> TRUE]

\* d[k] = v
Put(d, k, v) == [x \in (DOMAIN d) \cup {k} |-> IF x = k THEN v ELSE d[x]]

\* d.get(k, default)
Get(d, k, default) == IF k \in DOMAIN d THEN d[k] ELSE default

\* d.get(k) is truthy, for the step markers (non-empty strings when set)
Has(d, k) == k \in DOMAIN d

(***************************************************************************)
(* str methods                                                             *)
(***************************************************************************)

Digits == {"0", "1", "2", "3", "4", "5", "6", "7", "8", "9"}

Whitespace == {" ", "\t", "\n"}

DigitVal(c) ==
    CASE c = "0" -> 0 [] c = "1" -> 1 [] c = "2" -> 2 [] c = "3" -> 3
      [] c = "4" -> 4 [] c = "5" -> 5 [] c = "6" -> 6 [] c = "7" -> 7
      [] c = "8" -> 8 [] c = "9" -> 9

RECURSIVE LStrip(_)
LStrip(s) ==
    IF s # <<>> /\ Head(s) \in Whitespace THEN LStrip(Tail(s)) ELSE s

RECURSIVE RStrip(_)
RStrip(s) ==
    IF s # <<>> /\ s[Len(s)] \in Whitespace
    THEN RStrip(SubSeq(s, 1, Len(s) - 1))
    ELSE s

\* str.strip()
Strip(s) == RStrip(LStrip(s))

\* str.lower(), on the letters the model's texts use
LowerChar(c) ==
    CASE c = "A" -> "a" [] c = "B" -> "b" [] c = "C" -> "c" [] c = "D" -> "d"
      [] c = "E" -> "e" [] c = "I" -> "i" [] c = "K" -> "k" [] c = "L" -> "l"
      [] c = "N" -> "n" [] c = "P" -> "p" [] c = "R" -> "r" [] c = "S" -> "s"
      [] OTHER -> c

Lower(s) == [i \in 1..Len(s) |-> LowerChar(s[i])]

\* str.startswith(p)
StartsWith(s, p) == Len(s) >= Len(p) /\ SubSeq(s, 1, Len(p)) = p

\* str.split(sep), sep one character
RECURSIVE Split(_, _)
Split(s, sep) ==
    IF \A i \in 1..Len(s) : s[i] # sep THEN <<s>>
    ELSE LET k == CHOOSE i \in 1..Len(s) :
                    s[i] = sep /\ \A j \in 1..(i - 1) : s[j] # sep
         IN  <<SubSeq(s, 1, k - 1)>> \o Split(SubSeq(s, k + 1, Len(s)), sep)

\* the code point of a character, for the letters habit names are made of
Ord(c) ==
    CASE c = "A" -> 65 [] c = "R" -> 82 [] c = "a" -> 97 [] c = "e" -> 101
      [] c = "l" -> 108 [] c = "n" -> 110 [] c = "u" -> 117 [] c = "x" -> 120
      [] OTHER -> 0

\* a <= b in the order of ORDER BY on a TEXT column (BINARY collation)
RECURSIVE TextLE(_, _)
TextLE(a, b) ==
    IF a = <<>> THEN TRUE
    ELSE IF b = <<>> THEN FALSE
    ELSE IF Head(a) # Head(b) THEN Ord(Head(a)) < Ord(Head(b))
    ELSE TextLE(Tail(a), Tail(b))

RECURSIVE DigitsVal(_)
DigitsVal(s) ==
    IF s = <<>> THEN 0
    ELSE 10 * DigitsVal(SubSeq(s, 1, Len(s) - 1)) + DigitVal(s[Len(s)])

AllDigits(s) == s # <<>> /\ \A i \in 1..Len(s) : s[i] \in Digits

\* int(text): surrounding whitespace is dropped, one sign is allowed, the
\* rest must be decimal digits; anything else raises ValueError
IntParses(text) ==
    LET s == Strip(text)
        body == IF s # <<>> /\ Head(s) \in {"+", "-"} THEN Tail(s) ELSE s
    IN  AllDigits(body)

IntValue(text) ==
    LET s == Strip(text)
    IN  IF s # <<>> /\ Head(s) = "-" THEN 0 - DigitsVal(Tail(s))
        ELSE IF s # <<>> /\ Head(s) = "+" THEN DigitsVal(Tail(s))
        ELSE DigitsVal(s)

(***************************************************************************)
(* datetime.strptime(text, '%H:%M'): the format compiles to the regular    *)
(* expression (2[0-3]|[0-1]\d|\d):([0-5]\d|\d), matched at the start of    *)
(* the text, alternatives tried in order; ValueError when nothing matches  *)
(* or when text remains after the match.                                   *)
(***************************************************************************)

\* the lengths the hour group can take at the head of s, in regex order
HourOptions(s) ==
    (IF Len(s) >= 2 /\ s[1] = "2" /\ s[2] \in {"0", "1", "2", "3"}
     THEN <<2>> ELSE <<>>)
    \o (IF Len(s) >= 2 /\ s[1] \in {"0", "1"} /\ s[2] \in Digits
        THEN <<2>> ELSE <<>>)
    \o (IF Len(s) >= 1 /\ s[1] \in Digits THEN <<1>> ELSE <<>>)

\* the lengths the minute group can take at the head of s, in regex order
MinuteOptions(s) ==
    (IF Len(s) >= 2 /\ s[1] \in {"0", "1", "2", "3", "4", "5"} /\ s[2] \in Digits
     THEN <<2>> ELSE <<>>)
    \o (IF Len(s) >= 1 /\ s[1] \in Digits THEN <<1>> ELSE <<>>)

AfterHour(s, h) == SubSeq(s, h + 2, Len(s))

HourFits(s, h) ==
    /\ Len(s) > h
    /\ s[h + 1] = ":"
    /\ MinuteOptions(AfterHour(s, h)) # <<>>

\* where the match ends (found.end()), or -1 when the regex does not match
MatchEnd(s) ==
    LET hs == SelectSeq(HourOptions(s), LAMBDA h : HourFits(s, h))
    IN  IF hs = <<>> THEN -1
        ELSE hs[1] + 1 + MinuteOptions(AfterHour(s, hs[1]))[1]

\* strptime raises no ValueError
strptime_ok(s) == MatchEnd(s) = Len(s)


(***************************************************************************)
(* Texts of the model                                                      *)
(***************************************************************************)

TxtAlex == <<"A", "l", "e", "x">>
TxtRun == <<"R", "u", "n">>
Txt2230 == <<"2", "2", ":", "3", "0">>
Txt0700 == <<"0", "7", ":", "0", "0">>
Txt0730 == <<"7", ":", "3", "0">>
Txt2500h == <<"2", "5", ":", "0", "0">>
Txt2500 == <<"2", "5", "0", "0">>
TxtMinus5 == <<"-", "5">>
TxtAbc == <<"a", "b", "c">>
Txt0 == <<"0">>
Txt2 == <<"2">>
Txt4 == <<"4">>
Txt6 == <<"6">>
TxtSkip == <<"s", "k", "i", "p">>
TxtSkipCap == <<"S", "k", "i", "p">>
TxtCancel == <<"c", "a", "n", "c", "e", "l">>
TxtCancelCap == <<"C", "a", "n", "c", "e", "l">>
TxtEmpty == <<>>
TxtBlank == <<" ">>
TxtAlexPadded == <<" ", "A", "l", "e", "x", " ">>
Txt4Padded == <<" ", "4">>

\* keyboard labels: an emoji, a blank, the words
BtnSpiritual == <<"U+1F4FF", " ", "S", "p", "i", "r", "i", "t", "u", "a", "l", " ", "C", "h", "e", "c", "k">>
BtnReading == <<"U+1F4DA", " ", "R", "e", "a", "d", "i", "n", "g", " ", "T", "r", "a", "c", "k", "e", "r">>
BtnHabits == <<"U+1F3AF", " ", "C", "u", "s", "t", "o", "m", " ", "H", "a", "b", "i", "t", "s">>
BtnDone == <<"U+2705", " ", "D", "o", "n", "e">>
BtnChangeName == <<"U+1F464", " ", "C", "h", "a", "n", "g", "e", " ", "N", "a", "m", "e">>
BtnChangeSleep == <<"U+1F6CF", "U+FE0F", " ", "C", "h", "a", "n", "g", "e", " ", "S", "l", "e", "e", "p", " ", "T", "i", "m", "e", "s">>
BtnChangeWater == <<"U+1F4A7", " ", "C", "h", "a", "n", "g", "e", " ", "W", "a", "t", "e", "r", " ", "G", "o", "a", "l">>
BtnToggleModules == <<"U+2699", "U+FE0F", " ", "T", "o", "g", "g", "l", "e", " ", "M", "o", "d", "u", "l", "e", "s">>
BtnCancel == <<"U+274C", " ", "C", "a", "n", "c", "e", "l">>
BtnAddHabit == <<"U+2795", " ", "A", "d", "d", " ", "H", "a", "b", "i", "t">>
BtnDeleteHabit == <<"U+1F5D1", "U+FE0F", " ", "D", "e", "l", "e", "t", "e", " ", "H", "a", "b", "i", "t">>
BtnProgress == <<"U+1F4CA", " ", "T", "o", "d", "a", "y", "'", "s", " ", "P", "r", "o", "g", "r", "e", "s", "s">>
BtnBack == <<"U+1F519", " ", "B", "a", "c", "k">>
DeletePrefix == <<"U+274C", " ">>
BtnDeleteRun == DeletePrefix \o TxtRun
BtnDeleteAlex == DeletePrefix \o TxtAlex

\* update.effective_user.username, update.effective_user.first_name
TgUsername(u) == <<>>
TgFirstName(u) == <<"T", "g">>

(***************************************************************************)
(* The world a handler runs in                                             *)
(*   ud         context.user_data of each user (a dict)                    *)
(*   users      table users: user_id -> row                                *)
(*   mood_logs  table mood_logs: a set of rows                             *)
(*   habits     table habits: a set of rows                                *)
(*   habit_logs table habit_logs: a set of rows                            *)
(*   ids        the AUTOINCREMENT counters                                 *)
(*   today      date.today(), as a day number                              *)
(*   out        the last outbound effect: to whom, for which event, what   *)
(***************************************************************************)

World ==
    [ud |-> user_data, users |-> users, mood_logs |-> mood_logs,
     habits |-> habits, habit_logs |-> habit_logs, ids |-> ids,
     today |-> today, out |-> out]

Reply(w, u, tag) == [w EXCEPT !.out = [user |-> u, reply |-> tag]]

\* a reply that shows a computed value
ReplyWith(w, u, tag, value) ==
    [w EXCEPT !.out = [user |-> u, reply |-> tag, value |-> value]]

SetData(w, u, d) == [w EXCEPT !.ud[u] = d]

\* an exception leaves the handler: the update is dropped by the framework
Fault(w, u) == Reply(w, u, "fault")

(***************************************************************************)
(* database.py.  A gateway call whose statement raises returns False and   *)
(* commits nothing; ok says whether the call goes through.                 *)
(***************************************************************************)

DefaultBedtime == <<"2", "2", ":", "0", "0">>
DefaultWaketime == <<"0", "7", ":", "0", "0">>
DefaultWaterTarget == 2500

get_user(w, user_id) == user_id \in DOMAIN w.users

create_user(w, user_id, username, preferred_name, ok) ==
    IF ~ok THEN w
    ELSE [w EXCEPT !.users =
            Put(w.users, user_id,
                [username |-> username,
                 preferred_name |-> preferred_name,
                 bedtime |-> DefaultBedtime,
                 waketime |-> DefaultWaketime,
                 water_target |-> DefaultWaterTarget,
                 spiritual_enabled |-> FALSE,
                 reading_enabled |-> FALSE,
                 habits_enabled |-> TRUE])]

\* an update that also puts the water target back to its default
update_user_resets_water(w, user_id, kwargs, ok) ==
    IF ~ok \/ user_id \notin DOMAIN w.users THEN w
    ELSE [w EXCEPT !.users[user_id] =
            [c \in DOMAIN w.users[user_id] |->
                IF c \in DOMAIN kwargs THEN kwargs[c]
                ELSE IF c = "water_target" THEN DefaultWaterTarget
                ELSE w.users[user_id][c]]]

\* UPDATE users SET <the columns of kwargs> WHERE user_id = ?
update_user(w, user_id, kwargs, ok) ==
    IF ~ok \/ user_id \notin DOMAIN w.users THEN w
    ELSE [w EXCEPT !.users[user_id] =
            [c \in DOMAIN w.users[user_id] |->
                IF c \in DOMAIN kwargs THEN kwargs[c] ELSE w.users[user_id][c]]]

MoodRowsFor(w, user_id, date) ==
    {r \in w.mood_logs : r.user_id = user_id /\ r.date = date}

\* cursor.fetchone() of the SELECT: the row of the lowest id
FirstRow(rows) == CHOOSE r \in rows : \A q \in rows : r.id <= q.id

\* add_mood_entry without the SELECT for an existing row: always INSERT
add_mood_entry_insert(w, user_id, mood_score, note, ok) ==
    IF ~ok THEN w
    ELSE [w EXCEPT
            !.mood_logs = w.mood_logs
                \cup {[id |-> w.ids.mood, user_id |-> user_id,
                       date |-> w.today, mood_score |-> mood_score,
                       note |-> note]},
            !.ids.mood = w.ids.mood + 1]

add_mood_entry(w, user_id, mood_score, note, ok) ==
    LET existing == MoodRowsFor(w, user_id, w.today)
    IN  IF ~ok THEN w
        ELSE IF existing # {}
        THEN LET e == FirstRow(existing)
             IN  [w EXCEPT !.mood_logs =
                    (w.mood_logs \ {e})
                    \cup {[e EXCEPT !.mood_score = mood_score, !.note = note]}]
        ELSE [w EXCEPT
                !.mood_logs = w.mood_logs
                    \cup {[id |-> w.ids.mood, user_id |-> user_id,
                           date |-> w.today, mood_score |-> mood_score,
                           note |-> note]},
                !.ids.mood = w.ids.mood + 1]

get_mood_entry(w, user_id, date) == MoodRowsFor(w, user_id, date) # {}

add_habit(w, user_id, habit_name, ok) ==
    IF ~ok THEN w
    ELSE [w EXCEPT
            !.habits = w.habits
                \cup {[id |-> w.ids.habit, user_id |-> user_id,
                       habit_name |-> habit_name]},
            !.ids.habit = w.ids.habit + 1]

\* the SELECT without WHERE user_id = ?
get_user_habits_of_anyone(w, user_id) == w.habits

get_user_habits(w, user_id) == {h \in w.habits : h.user_id = user_id}

delete_habit(w, user_id, habit_id, ok) ==
    IF ~ok THEN w
    ELSE [w EXCEPT
            !.habit_logs = {l \in w.habit_logs :
                                ~(l.user_id = user_id /\ l.habit_id = habit_id)},
            !.habits = {h \in w.habits :
                            ~(h.user_id = user_id /\ h.id = habit_id)}]

\* log_habit without the SELECT for an existing log: always INSERT
log_habit_insert(w, user_id, habit_id, completed, ok) ==
    IF ~ok THEN w
    ELSE [w EXCEPT
            !.habit_logs = w.habit_logs
                \cup {[id |-> w.ids.log, user_id |-> user_id,
                       habit_id |-> habit_id, date |-> w.today,
                       completed |-> completed]},
            !.ids.log = w.ids.log + 1]

\* INSERT or, when the user has a log of the habit for today, UPDATE of it
log_habit(w, user_id, habit_id, completed, ok) ==
    LET existing == {l \in w.habit_logs :
                        /\ l.user_id = user_id
                        /\ l.habit_id = habit_id
                        /\ l.date = w.today}
    IN  IF ~ok THEN w
        ELSE IF existing # {}
        THEN LET e == FirstRow(existing)
             IN  [w EXCEPT !.habit_logs =
                    (w.habit_logs \ {e})
                    \cup {[e EXCEPT !.completed = completed]}]
        ELSE [w EXCEPT
                !.habit_logs = w.habit_logs
                    \cup {[id |-> w.ids.log, user_id |-> user_id,
                           habit_id |-> habit_id, date |-> w.today,
                           completed |-> completed]},
                !.ids.log = w.ids.log + 1]

\* the rows of habits h LEFT JOIN habit_logs hl ON <on> WHERE h.user_id = ?:
\* a habit with no matching log gives one row whose log columns are NULL
NullLog == [id |-> 0]

\* matches: the pairs <<habit, log>> the ON clause accepts
LeftJoin(w, user_id, matches) ==
    LET hs == get_user_habits(w, user_id)
    IN  {p \in matches : p[1] \in hs}
        \cup {<<h, NullLog>> : h \in {g \in hs :
                                        \A p \in matches : p[1] # g}}

\* the value read as: a row was found
RowLogged(l) == l # NullLog

\* bool(row[2]) if row[2] is not None else False
RowCompleted(l) == IF l = NullLog THEN FALSE ELSE l.completed

\* the orders ORDER BY h.habit_name may return the rows in
OrderedByName(rows) ==
    {f \in [1..Cardinality(rows) -> rows] :
        /\ \A i, j \in DOMAIN f : i # j => f[i] # f[j]
        /\ \A i, j \in DOMAIN f :
                i < j => TextLE(f[i][1].habit_name, f[j][1].habit_name)}

\* the lists get_habit_logs_for_date may return
get_habit_logs_for_date(w, user_id, date) ==
    LET on(h, l) == h.id = l.habit_id /\ l.date = date /\ l.user_id = user_id
    IN  {[i \in DOMAIN f |->
            [habit_id |-> f[i][1].id,
             habit_name |-> f[i][1].habit_name,
             completed |-> RowCompleted(f[i][2]),
             date |-> date]] :
         f \in OrderedByName(LeftJoin(w, user_id,
                {p \in w.habits \X w.habit_logs : on(p[1], p[2])}))}

\* a percentage (x / y) * 100, kept as the fraction num / den
Percentage(x, y) == [num |-> 100 * x, den |-> y]

ZeroPercentage == [num |-> 0, den |-> 1]

\* today - timedelta(days=6)
WeekStart(date) == date - 6

\* habit_stats: habit_name -> {completed, total, percentage}
get_habit_stats_weekly(w, user_id) ==
    LET on(h, l) ==
            /\ h.id = l.habit_id
            /\ l.date >= WeekStart(w.today)
            /\ l.date <= w.today
            /\ l.user_id = user_id
        results == LeftJoin(w, user_id,
                {p \in w.habits \X w.habit_logs : on(p[1], p[2])})
        names == {r[1].habit_name : r \in results}
        total(n) == Cardinality({r \in results : r[1].habit_name = n})
        completed(n) ==
            Cardinality({r \in results :
                            r[1].habit_name = n /\ RowCompleted(r[2])})
    IN  [n \in names |->
            [completed |-> completed(n),
             total |-> total(n),
             percentage |-> IF total(n) > 0
                            THEN Percentage(completed(n), total(n))
                            ELSE ZeroPercentage]]

\* the count of the day's logs without the test AND hl.completed = 1
LoggedOn(w, user_id, date) ==
    Cardinality({p \in w.habit_logs \X w.habits :
                    /\ p[1].habit_id = p[2].id
                    /\ p[2].user_id = user_id
                    /\ p[1].date = date})

\* SELECT COUNT(*) FROM habit_logs hl JOIN habits h ON hl.habit_id = h.id
\* WHERE h.user_id = ? AND hl.date = ? AND hl.completed = 1
CompletedOn(w, user_id, date) ==
    Cardinality({p \in w.habit_logs \X w.habits :
                    /\ p[1].habit_id = p[2].id
                    /\ p[2].user_id = user_id
                    /\ p[1].date = date
                    /\ p[1].completed})

\* the while True loop, from current_date backwards
RECURSIVE StreakLoop(_, _, _, _, _)
StreakLoop(w, user_id, total_habits, current_date, streak) ==
    IF CompletedOn(w, user_id, current_date) = total_habits
    THEN StreakLoop(w, user_id, total_habits, current_date - 1, streak + 1)
    ELSE streak

get_habit_streak(w, user_id) ==
    LET total_habits == Cardinality(get_user_habits(w, user_id))
    IN  IF total_habits = 0 THEN 0
        ELSE StreakLoop(w, user_id, total_habits, w.today, 0)

\* the overall stats without the JOIN to the user's habits: every log row
\* of the table is counted
get_habit_overall_stats_unjoined(w, user_id) ==
    LET total_logs == Cardinality(w.habit_logs)
        completed_logs == Cardinality({l \in w.habit_logs : l.completed})
    IN  [total_logs |-> total_logs,
         completed_logs |-> completed_logs,
         completion_percentage |->
            IF total_logs > 0 THEN Percentage(completed_logs, total_logs)
            ELSE ZeroPercentage]

get_habit_overall_stats(w, user_id) ==
    LET joined == {p \in w.habit_logs \X w.habits :
                        p[1].habit_id = p[2].id /\ p[2].user_id = user_id}
        total_logs == Cardinality(joined)
        completed_logs == Cardinality({p \in joined : p[1].completed})
    IN  [total_logs |-> total_logs,
         completed_logs |-> completed_logs,
         completion_percentage |->
            IF total_logs > 0 THEN Percentage(completed_logs, total_logs)
            ELSE ZeroPercentage]

(***************************************************************************)
(* handlers/messages.py                                                    *)
(***************************************************************************)

\* the time steps: datetime.strptime(text, '%H:%M') in a try block
valid_time(text) == strptime_ok(text)

\* the water check without its lower bound: a ValueError only when the
\* value is negative
valid_water_nonnegative(text) == IntParses(text) /\ IntValue(text) >= 0

\* the water steps: int(text), then a ValueError when the value is <= 0
valid_water(text) == IntParses(text) /\ IntValue(text) > 0

\* the rating check as text.isdigit() on a single character
valid_rating_digit(text) == Len(text) = 1 /\ text[1] \in Digits

\* the rating step: text in ['1', '2', '3', '4', '5']
valid_rating(text) == text \in {<<"1">>, <<"2">>, <<"3">>, <<"4">>, <<"5">>}

\* the except ValueError branches and the rating step's else branch: a
\* format reminder is sent and the handler returns
reprompt(w, u, tag) == Reply(w, u, tag)

\* a button that switches the module on whatever it was
SwitchOn(d, key, default) == Put(d, key, TRUE)

\* context.user_data[key] = not context.user_data.get(key, default)
Toggle(d, key, default) == Put(d, key, ~Get(d, key, default))

\* the three toggle branches, shared by the two module sub-loops
module_toggle(w, u, text) ==
    LET d == w.ud[u]
    IN  IF text = BtnSpiritual
        THEN Reply(SetData(w, u, Toggle(d, "spiritual_enabled", FALSE)), u,
                   "module_toggled")
        ELSE IF text = BtnReading
        THEN Reply(SetData(w, u, Toggle(d, "reading_enabled", FALSE)), u,
                   "module_toggled")
        ELSE Reply(SetData(w, u, Toggle(d, "habits_enabled", TRUE)), u,
                   "module_toggled")

\* the Done branch saving the schema defaults instead of the scratch values
onboarding_done_defaults(w, u, ok) ==
    LET kwargs == [bedtime |-> DefaultBedtime,
                   waketime |-> DefaultWaketime,
                   water_target |-> DefaultWaterTarget,
                   spiritual_enabled |-> FALSE,
                   reading_enabled |-> FALSE,
                   habits_enabled |-> TRUE]
    IN  IF ~ok THEN Reply(w, u, "onboarding_save_error")
        ELSE Reply(SetData(update_user(w, u, kwargs, ok), u, EmptyDict), u,
                   "onboarding_complete")

onboarding_done(w, u, ok) ==
    LET d == w.ud[u]
        kwargs == [bedtime |-> Get(d, "bedtime", DefaultBedtime),
                   waketime |-> Get(d, "waketime", DefaultWaketime),
                   water_target |-> Get(d, "water_target", DefaultWaterTarget),
                   spiritual_enabled |-> Get(d, "spiritual_enabled", FALSE),
                   reading_enabled |-> Get(d, "reading_enabled", FALSE),
                   habits_enabled |-> Get(d, "habits_enabled", TRUE)]
    IN  IF ~ok THEN Reply(w, u, "onboarding_save_error")
        ELSE Reply(SetData(update_user(w, u, kwargs, ok), u, EmptyDict), u,
                   "onboarding_complete")

\* the onboarding whose bedtime step goes on to water_target
handle_onboarding_skips_waketime(w, u, raw, ok) ==
    LET d == w.ud[u]
        step == Get(d, "onboarding_step", "")
        text == Strip(raw)
    IN  CASE step = "name" ->
                IF ~ok THEN Reply(w, u, "onboarding_name_error")
                ELSE Reply(SetData(update_user(w, u, [preferred_name |-> text], ok),
                                   u, Put(d, "onboarding_step", "bedtime")),
                           u, "nice_to_meet_you")
          [] step = "bedtime" ->
                IF ~valid_time(text) THEN reprompt(w, u, "invalid_time")
                ELSE Reply(SetData(w, u,
                               Put(Put(d, "bedtime", text),
                                   "onboarding_step", "water_target")),
                           u, "ask_waketime")
          [] step = "waketime" ->
                IF ~valid_time(text) THEN reprompt(w, u, "invalid_time")
                ELSE Reply(SetData(w, u,
                               Put(Put(d, "waketime", text),
                                   "onboarding_step", "water_target")),
                           u, "ask_water")
          [] step = "water_target" ->
                IF ~valid_water(text) THEN reprompt(w, u, "invalid_water")
                ELSE Reply(SetData(w, u,
                               Put(Put(Put(Put(Put(d,
                                   "water_target", IntValue(text)),
                                   "spiritual_enabled", FALSE),
                                   "reading_enabled", FALSE),
                                   "habits_enabled", TRUE),
                                   "onboarding_step", "modules")),
                           u, "module_selection")
          [] step = "modules" ->
                IF text \in {BtnSpiritual, BtnReading, BtnHabits}
                THEN module_toggle(w, u, text)
                ELSE IF text = BtnDone THEN onboarding_done(w, u, ok)
                ELSE Reply(w, u, "none")
          [] OTHER -> Reply(w, u, "none")

handle_onboarding(w, u, raw, ok) ==
    LET d == w.ud[u]
        step == Get(d, "onboarding_step", "")
        text == Strip(raw)
    IN  CASE step = "name" ->
                IF ~ok THEN Reply(w, u, "onboarding_name_error")
                ELSE Reply(SetData(update_user(w, u, [preferred_name |-> text], ok),
                                   u, Put(d, "onboarding_step", "bedtime")),
                           u, "nice_to_meet_you")
          [] step = "bedtime" ->
                IF ~valid_time(text) THEN reprompt(w, u, "invalid_time")
                ELSE Reply(SetData(w, u,
                               Put(Put(d, "bedtime", text),
                                   "onboarding_step", "waketime")),
                           u, "ask_waketime")
          [] step = "waketime" ->
                IF ~valid_time(text) THEN reprompt(w, u, "invalid_time")
                ELSE Reply(SetData(w, u,
                               Put(Put(d, "waketime", text),
                                   "onboarding_step", "water_target")),
                           u, "ask_water")
          [] step = "water_target" ->
                IF ~valid_water(text) THEN reprompt(w, u, "invalid_water")
                ELSE Reply(SetData(w, u,
                               Put(Put(Put(Put(Put(d,
                                   "water_target", IntValue(text)),
                                   "spiritual_enabled", FALSE),
                                   "reading_enabled", FALSE),
                                   "habits_enabled", TRUE),
                                   "onboarding_step", "modules")),
                           u, "module_selection")
          [] step = "modules" ->
                IF text \in {BtnSpiritual, BtnReading, BtnHabits}
                THEN module_toggle(w, u, text)
                ELSE IF text = BtnDone THEN onboarding_done(w, u, ok)
                ELSE Reply(w, u, "none")
          [] OTHER -> Reply(w, u, "none")

\* the main menu without context.user_data.clear() in the Cancel branch
preferences_main_menu_cancel_stays(w, u, text) ==
    LET d == w.ud[u]
    IN  CASE text = BtnChangeName ->
                Reply(SetData(w, u, Put(d, "preferences_mode", "change_name")),
                      u, "ask_name")
          [] text = BtnChangeSleep ->
                Reply(SetData(w, u, Put(d, "preferences_mode", "change_bedtime")),
                      u, "ask_bedtime")
          [] text = BtnChangeWater ->
                Reply(SetData(w, u, Put(d, "preferences_mode", "change_water")),
                      u, "ask_water")
          [] text = BtnToggleModules ->
                IF ~get_user(w, u) THEN Fault(w, u)
                ELSE Reply(SetData(w, u,
                               Put(Put(Put(Put(d,
                                   "spiritual_enabled", w.users[u].spiritual_enabled),
                                   "reading_enabled", w.users[u].reading_enabled),
                                   "habits_enabled", w.users[u].habits_enabled),
                                   "preferences_mode", "toggle_modules")),
                           u, "module_selection")
          [] text = BtnCancel ->
                Reply(w, u, "preferences_cancelled")
          [] OTHER -> Reply(w, u, "none")

\* the main menu seeding the module sub-loop with the schema defaults
preferences_main_menu_seeds_defaults(w, u, text) ==
    LET d == w.ud[u]
    IN  CASE text = BtnChangeName ->
                Reply(SetData(w, u, Put(d, "preferences_mode", "change_name")),
                      u, "ask_name")
          [] text = BtnChangeSleep ->
                Reply(SetData(w, u, Put(d, "preferences_mode", "change_bedtime")),
                      u, "ask_bedtime")
          [] text = BtnChangeWater ->
                Reply(SetData(w, u, Put(d, "preferences_mode", "change_water")),
                      u, "ask_water")
          [] text = BtnToggleModules ->
                IF ~get_user(w, u) THEN Fault(w, u)
                ELSE Reply(SetData(w, u,
                               Put(Put(Put(Put(d,
                                   "spiritual_enabled", FALSE),
                                   "reading_enabled", FALSE),
                                   "habits_enabled", TRUE),
                                   "preferences_mode", "toggle_modules")),
                           u, "module_selection")
          [] text = BtnCancel ->
                Reply(SetData(w, u, EmptyDict), u, "preferences_cancelled")
          [] OTHER -> Reply(w, u, "none")

preferences_main_menu(w, u, text) ==
    LET d == w.ud[u]
    IN  CASE text = BtnChangeName ->
                Reply(SetData(w, u, Put(d, "preferences_mode", "change_name")),
                      u, "ask_name")
          [] text = BtnChangeSleep ->
                Reply(SetData(w, u, Put(d, "preferences_mode", "change_bedtime")),
                      u, "ask_bedtime")
          [] text = BtnChangeWater ->
                Reply(SetData(w, u, Put(d, "preferences_mode", "change_water")),
                      u, "ask_water")
          [] text = BtnToggleModules ->
                IF ~get_user(w, u) THEN Fault(w, u)
                ELSE Reply(SetData(w, u,
                               Put(Put(Put(Put(d,
                                   "spiritual_enabled", w.users[u].spiritual_enabled),
                                   "reading_enabled", w.users[u].reading_enabled),
                                   "habits_enabled", w.users[u].habits_enabled),
                                   "preferences_mode", "toggle_modules")),
                           u, "module_selection")
          [] text = BtnCancel ->
                Reply(SetData(w, u, EmptyDict), u, "preferences_cancelled")
          [] OTHER -> Reply(w, u, "none")

\* a leaf of the preferences flow that keeps the session after its write
preferences_commit_keeps_session(w, u, kwargs, ok) ==
    Reply(update_user(w, u, kwargs, ok), u,
          IF ok THEN "preferences_updated" ELSE "preferences_update_error")

\* a leaf of the preferences flow after its update_user call: the reply
\* depends on success, context.user_data.clear() runs either way
preferences_commit(w, u, kwargs, ok) ==
    Reply(SetData(update_user(w, u, kwargs, ok), u, EmptyDict), u,
          IF ok THEN "preferences_updated" ELSE "preferences_update_error")

handle_preferences(w, u, raw, ok) ==
    LET d == w.ud[u]
        mode == Get(d, "preferences_mode", "")
        text == Strip(raw)
    IN  CASE mode = "main_menu" -> preferences_main_menu(w, u, text)
          [] mode = "change_name" ->
                preferences_commit(w, u, [preferred_name |-> text], ok)
          [] mode = "change_bedtime" ->
                IF ~valid_time(text) THEN reprompt(w, u, "invalid_time")
                ELSE Reply(SetData(w, u,
                               Put(Put(d, "new_bedtime", text),
                                   "preferences_mode", "change_waketime")),
                           u, "ask_waketime")
          [] mode = "change_waketime" ->
                IF ~valid_time(text) THEN reprompt(w, u, "invalid_time")
                ELSE preferences_commit(w, u,
                        [bedtime |-> Get(d, "new_bedtime", NoneText),
                         waketime |-> text], ok)
          [] mode = "change_water" ->
                IF ~valid_water(text) THEN reprompt(w, u, "invalid_water")
                ELSE preferences_commit(w, u,
                        [water_target |-> IntValue(text)], ok)
          [] mode = "toggle_modules" ->
                IF text \in {BtnSpiritual, BtnReading, BtnHabits}
                THEN module_toggle(w, u, text)
                ELSE IF text = BtnDone
                THEN preferences_commit(w, u,
                        [spiritual_enabled |-> Get(d, "spiritual_enabled", FALSE),
                         reading_enabled |-> Get(d, "reading_enabled", FALSE),
                         habits_enabled |-> Get(d, "habits_enabled", TRUE)], ok)
                ELSE Reply(w, u, "none")
          [] OTHER -> Reply(w, u, "none")

handle_mood_flow(w, u, raw, ok) ==
    LET d == w.ud[u]
        mood_step == Get(d, "mood_step", "")
        text == Strip(raw)
        rating == Get(d, "mood_rating", NoneInt)
        note == IF Lower(text) = TxtSkip THEN NoneText ELSE text
        saved == SetData(add_mood_entry(w, u, rating, note, ok), u, EmptyDict)
    IN  CASE mood_step = "rating" ->
                IF valid_rating(text)
                THEN Reply(SetData(w, u,
                               Put(Put(d, "mood_rating", IntValue(text)),
                                   "mood_step", "note")),
                           u, "ask_note")
                ELSE reprompt(w, u, "select_rating")
          [] mood_step = "note" ->
                IF ~ok THEN Reply(saved, u, "mood_save_error")
                ELSE IF rating = NoneInt THEN Fault(saved, u)
                ELSE Reply(saved, u, "mood_logged")
          [] OTHER -> Reply(w, u, "none")

\* show_daily_habits: reads the day's logs and replies
show_daily_habits(w, u) ==
    IF get_user_habits(w, u) = {} THEN Reply(w, u, "no_habits_to_track")
    ELSE ReplyWith(w, u, "daily_progress",
                   get_habit_logs_for_date(w, u, w.today))

\* the add steps comparing the text with the cancel token as typed
habit_add_exact_cancel(w, u, text, ok) ==
    IF text = TxtCancel
    THEN Reply(SetData(w, u, EmptyDict), u, "habit_creation_cancelled")
    ELSE Reply(SetData(add_habit(w, u, text, ok), u, EmptyDict), u,
               IF ok THEN "habit_created" ELSE "habit_create_error")

\* add_first and add_new: the same code but for the reply text
habit_add(w, u, text, ok) ==
    IF Lower(text) = TxtCancel
    THEN Reply(SetData(w, u, EmptyDict), u, "habit_creation_cancelled")
    ELSE Reply(SetData(add_habit(w, u, text, ok), u, EmptyDict), u,
               IF ok THEN "habit_created" ELSE "habit_create_error")

\* next(h for h in habits if h['habit_name'] == habit_name): the rows come
\* ORDER BY habit_name, rows of one name in rowid order
habit_delete(w, u, text, ok) ==
    LET habit_name == SubSeq(text, 3, Len(text))
        named == {h \in get_user_habits(w, u) : h.habit_name = habit_name}
    IN  IF named = {}
        THEN Reply(SetData(w, u, EmptyDict), u, "habit_not_found")
        ELSE Reply(SetData(delete_habit(w, u, FirstRow(named).id, ok), u,
                           EmptyDict),
                   u, IF ok THEN "habit_deleted" ELSE "habit_delete_error")

\* the habit flow without context.user_data.clear() after the progress
handle_habit_flow_progress_stays(w, u, raw, ok) ==
    LET d == w.ud[u]
        habit_step == Get(d, "habit_step", "")
        text == Strip(raw)
    IN  CASE habit_step = "add_first" -> habit_add(w, u, text, ok)
          [] habit_step = "manage" ->
                CASE text = BtnAddHabit ->
                        Reply(SetData(w, u, Put(d, "habit_step", "add_new")),
                              u, "ask_new_habit")
                  [] text = BtnDeleteHabit ->
                        IF get_user_habits(w, u) = {}
                        THEN Reply(SetData(w, u, EmptyDict), u,
                                   "no_habits_to_delete")
                        ELSE Reply(SetData(w, u, Put(d, "habit_step", "delete")),
                                   u, "which_habit")
                  [] text = BtnProgress ->
                        show_daily_habits(w, u)
                  [] text = BtnCancel ->
                        Reply(SetData(w, u, EmptyDict), u, "habits_cancelled")
                  [] OTHER -> Reply(w, u, "none")
          [] habit_step = "add_new" -> habit_add(w, u, text, ok)
          [] habit_step = "delete" ->
                IF text = BtnBack
                THEN Reply(SetData(w, u, Put(d, "habit_step", "manage")), u,
                           "habits_menu_again")
                ELSE IF StartsWith(text, DeletePrefix)
                THEN habit_delete(w, u, text, ok)
                ELSE Reply(w, u, "none")
          [] OTHER -> Reply(w, u, "none")

handle_habit_flow(w, u, raw, ok) ==
    LET d == w.ud[u]
        habit_step == Get(d, "habit_step", "")
        text == Strip(raw)
    IN  CASE habit_step = "add_first" -> habit_add(w, u, text, ok)
          [] habit_step = "manage" ->
                CASE text = BtnAddHabit ->
                        Reply(SetData(w, u, Put(d, "habit_step", "add_new")),
                              u, "ask_new_habit")
                  [] text = BtnDeleteHabit ->
                        IF get_user_habits(w, u) = {}
                        THEN Reply(SetData(w, u, EmptyDict), u,
                                   "no_habits_to_delete")
                        ELSE Reply(SetData(w, u, Put(d, "habit_step", "delete")),
                                   u, "which_habit")
                  [] text = BtnProgress ->
                        SetData(show_daily_habits(w, u), u, EmptyDict)
                  [] text = BtnCancel ->
                        Reply(SetData(w, u, EmptyDict), u, "habits_cancelled")
                  [] OTHER -> Reply(w, u, "none")
          [] habit_step = "add_new" -> habit_add(w, u, text, ok)
          [] habit_step = "delete" ->
                IF text = BtnBack
                THEN Reply(SetData(w, u, Put(d, "habit_step", "manage")), u,
                           "habits_menu_again")
                ELSE IF StartsWith(text, DeletePrefix)
                THEN habit_delete(w, u, text, ok)
                ELSE Reply(w, u, "none")
          [] OTHER -> Reply(w, u, "none")

\* which flow handler handle_text_message hands the text to
Route(d) ==
    IF Has(d, "onboarding_step") THEN "onboarding"
    ELSE IF Has(d, "preferences_mode") THEN "preferences"
    ELSE IF Has(d, "mood_step") THEN "mood"
    ELSE IF Has(d, "habit_step") THEN "habit"
    ELSE "none"

\* handle_text_message without the final else branch
handle_text_message_no_fallback(w, u, text, ok) ==
    LET r == Route(w.ud[u])
    IN  CASE r = "onboarding" -> handle_onboarding(w, u, text, ok)
          [] r = "preferences" -> handle_preferences(w, u, text, ok)
          [] r = "mood" -> handle_mood_flow(w, u, text, ok)
          [] r = "habit" -> handle_habit_flow(w, u, text, ok)
          [] OTHER -> Reply(w, u, "none")

handle_text_message(w, u, text, ok) ==
    LET r == Route(w.ud[u])
    IN  CASE r = "onboarding" -> handle_onboarding(w, u, text, ok)
          [] r = "preferences" -> handle_preferences(w, u, text, ok)
          [] r = "mood" -> handle_mood_flow(w, u, text, ok)
          [] r = "habit" -> handle_habit_flow(w, u, text, ok)
          [] OTHER -> Reply(w, u, "use_help")

(***************************************************************************)
(* handlers/commands.py                                                    *)
(***************************************************************************)

\* start_command without the early return for an existing user
start_command_restart(w, u, ok) ==
    Reply(SetData(create_user(w, u, TgUsername(u), <<>>, ok), u,
                  Put(w.ud[u], "onboarding_step", "name")),
          u, "welcome")

start_command(w, u, ok) ==
    IF get_user(w, u) THEN Reply(w, u, "welcome_back")
    ELSE Reply(SetData(create_user(w, u, TgUsername(u), <<>>, ok), u,
                       Put(w.ud[u], "onboarding_step", "name")),
               u, "welcome")

preferences_command(w, u) ==
    IF ~get_user(w, u) THEN Reply(w, u, "complete_onboarding_first")
    ELSE Reply(SetData(w, u, Put(w.ud[u], "preferences_mode", "main_menu")),
               u, "preferences_menu")

\* if not existing_user: db.create_user(...), its result unused
ensure_user(w, u, ok) ==
    IF get_user(w, u) THEN w
    ELSE create_user(w, u, TgUsername(u), TgFirstName(u), ok)

\* /mood opening the flow at the note step
mood_command_at_note(w, u, ok) ==
    LET w1 == ensure_user(w, u, ok)
    IN  Reply(SetData(w1, u, Put(w.ud[u], "mood_step", "note")), u,
              IF get_mood_entry(w1, u, w1.today) THEN "mood_already_logged"
              ELSE "mood_prompt")

mood_command(w, u, ok) ==
    LET w1 == ensure_user(w, u, ok)
    IN  Reply(SetData(w1, u, Put(w.ud[u], "mood_step", "rating")), u,
              IF get_mood_entry(w1, u, w1.today) THEN "mood_already_logged"
              ELSE "mood_prompt")

habits_command(w, u, ok) ==
    LET w1 == ensure_user(w, u, ok)
    IN  IF get_user_habits(w1, u) = {}
        THEN Reply(SetData(w1, u, Put(w.ud[u], "habit_step", "add_first")), u,
                   "first_habit_prompt")
        ELSE Reply(SetData(w1, u, Put(w.ud[u], "habit_step", "manage")), u,
                   "habits_menu")

habittracker_command(w, u) ==
    IF ~get_user(w, u) THEN Reply(w, u, "use_start_first")
    ELSE LET stats == get_habit_stats_weekly(w, u)
         IN  IF DOMAIN stats = {} THEN Reply(w, u, "no_habit_data")
             ELSE ReplyWith(w, u, "weekly_report", stats)

habitstreak_command(w, u) ==
    IF ~get_user(w, u) THEN Reply(w, u, "use_start_first")
    ELSE IF get_user_habits(w, u) = {} THEN Reply(w, u, "no_habits_yet")
    ELSE ReplyWith(w, u, "habit_streak", get_habit_streak(w, u))

\* the comparison as completion_pct > n
MoreThan(pct, n) == pct.num > n * pct.den

\* completion_pct >= n, on a percentage kept as a fraction
AtLeast(pct, n) == pct.num >= n * pct.den

\* the if/elif ladder of habitstats_command
badge(completion_pct) ==
    IF AtLeast(completion_pct, 90) THEN "LEGEND"
    ELSE IF AtLeast(completion_pct, 80) THEN "CHAMPION"
    ELSE IF AtLeast(completion_pct, 70) THEN "ACHIEVER"
    ELSE IF AtLeast(completion_pct, 60) THEN "BUILDER"
    ELSE IF AtLeast(completion_pct, 40) THEN "STARTER"
    ELSE "BEGINNER"

habitstats_command(w, u) ==
    IF ~get_user(w, u) THEN Reply(w, u, "use_start_first")
    ELSE IF get_user_habits(w, u) = {} THEN Reply(w, u, "no_habits_yet")
    ELSE LET stats == get_habit_overall_stats(w, u)
         IN  ReplyWith(w, u, "habit_badge",
                       [badge |-> badge(stats.completion_percentage),
                        stats |-> stats])

(***************************************************************************)
(* handlers/callbacks.py                                                   *)
(***************************************************************************)

HabitTogglePrefix ==
    <<"h", "a", "b", "i", "t", "_", "t", "o", "g", "g", "l", "e", "_">>

\* handle_callback_query, but a toggle that was logged also ends the
\* conversation of the user, the way the text steps do
handle_callback_query_clears(w, u, data, ok) ==
    IF StartsWith(data, HabitTogglePrefix)
    THEN LET parts == Split(data, "_")
         IN  IF Len(parts) = 4
             THEN IF ~IntParses(parts[3]) \/ ~IntParses(parts[4])
                  THEN Fault(w, u)
                  ELSE LET habit_id == IntValue(parts[3])
                           completed == IntValue(parts[4]) # 0
                       IN  IF ok
                           THEN Reply(SetData(log_habit(w, u, habit_id,
                                                        completed, ok),
                                              u, EmptyDict),
                                      u, "habit_progress")
                           ELSE Reply(w, u, "habit_update_error")
             ELSE Reply(w, u, "none")
    ELSE Reply(w, u, "unknown_action")

\* int(parts[2]) and int(parts[3]) are not guarded: a part that is no
\* integer raises ValueError out of the handler
handle_callback_query(w, u, data, ok) ==
    IF StartsWith(data, HabitTogglePrefix)
    THEN LET parts == Split(data, "_")
         IN  IF Len(parts) = 4
             THEN IF ~IntParses(parts[3]) \/ ~IntParses(parts[4])
                  THEN Fault(w, u)
                  ELSE LET habit_id == IntValue(parts[3])
                           completed == IntValue(parts[4]) # 0
                       IN  IF ok
                           THEN Reply(log_habit(w, u, habit_id, completed, ok),
                                      u, "habit_progress")
                           ELSE Reply(w, u, "habit_update_error")
             ELSE Reply(w, u, "none")
    ELSE Reply(w, u, "unknown_action")

(***************************************************************************)
(* The state machine                                                       *)
(***************************************************************************)

Users == {1, 2}

\* the users whose events the specification Spec delivers
Actors == {1}

\* habits ever created in a run (the AUTOINCREMENT counter is capped here)
MaxHabits == 2

GatewayOutcomes == BOOLEAN

InitWorld ==
    /\ user_data = [u \in Users |-> EmptyDict]
    /\ users = EmptyDict
    /\ mood_logs = {}
    /\ habits = {}
    /\ habit_logs = {}
    /\ ids = [mood |-> 1, habit |-> 1, log |-> 1]
    /\ today = 0
    /\ out = [user |-> 0, reply |-> "none"]

Apply(w) ==
    /\ user_data' = w.ud
    /\ users' = w.users
    /\ mood_logs' = w.mood_logs
    /\ habits' = w.habits
    /\ habit_logs' = w.habit_logs
    /\ ids' = w.ids
    /\ today' = w.today
    /\ out' = w.out

Idle == <<tin, tres, script, pc>>

\* what the environment types at each step
OnboardingInputs(step) ==
    CASE step = "name" -> {TxtAlex}
      [] step = "bedtime" -> {Txt2230, Txt2500h}
      [] step = "waketime" -> {Txt0730, Txt2500h}
      [] step = "water_target" -> {Txt4, Txt0}
      [] step = "modules" -> {BtnSpiritual, BtnHabits, BtnDone, TxtAlex}
      [] OTHER -> {}

PreferencesInputs(mode) ==
    CASE mode = "main_menu" ->
            {BtnChangeName, BtnChangeSleep, BtnChangeWater, BtnToggleModules,
             BtnCancel, TxtAlex}
      [] mode = "change_name" -> {TxtAlex}
      [] mode = "change_bedtime" -> {Txt2230, Txt2500h}
      [] mode = "change_waketime" -> {Txt0730, Txt2500h}
      [] mode = "change_water" -> {Txt4, Txt0}
      [] mode = "toggle_modules" -> {BtnSpiritual, BtnHabits, BtnDone, TxtAlex}
      [] OTHER -> {}

MoodInputs(step) ==
    CASE step = "rating" -> {Txt4, Txt0}
      [] step = "note" -> {TxtSkip, TxtAlex}
      [] OTHER -> {}

HabitInputs(step) ==
    CASE step \in {"add_first", "add_new"} -> {TxtRun, TxtCancel}
      [] step = "manage" ->
            {BtnAddHabit, BtnDeleteHabit, BtnProgress, BtnCancel, TxtAlex}
      [] step = "delete" -> {BtnBack, BtnDeleteRun, BtnDeleteAlex, TxtAlex}
      [] OTHER -> {}

\* the texts the environment sends a user with session d: an answer to the
\* prompt of the step that will handle it, or a stray text when no flow is
\* open
EnvTexts(d) ==
    LET r == Route(d)
    IN  CASE r = "onboarding" -> OnboardingInputs(d["onboarding_step"])
          [] r = "preferences" -> PreferencesInputs(d["preferences_mode"])
          [] r = "mood" -> MoodInputs(d["mood_step"])
          [] r = "habit" -> HabitInputs(d["habit_step"])
          [] OTHER -> {TxtAlex}

WithinBounds(w) == w.ids.habit <= MaxHabits + 1

StartCmd(u) ==
    /\ \E ok \in GatewayOutcomes : Apply(start_command(World, u, ok))
    /\ UNCHANGED Idle

PreferencesCmd(u) ==
    /\ Apply(preferences_command(World, u))
    /\ UNCHANGED Idle

MoodCmd(u) ==
    /\ \E ok \in GatewayOutcomes : Apply(mood_command(World, u, ok))
    /\ UNCHANGED Idle

HabitsCmd(u) ==
    /\ \E ok \in GatewayOutcomes : Apply(habits_command(World, u, ok))
    /\ UNCHANGED Idle

TextMsg(u) ==
    /\ \E text \in EnvTexts(user_data[u]), ok \in GatewayOutcomes :
          LET w == handle_text_message(World, u, text, ok)
          IN  WithinBounds(w) /\ Apply(w)
    /\ UNCHANGED Idle

Init ==
    /\ InitWorld
    /\ tin = <<>>
    /\ tres = "idle"
    /\ script = <<>>
    /\ pc = 0

Next ==
    \E u \in Actors :
        \/ StartCmd(u)
        \/ PreferencesCmd(u)
        \/ MoodCmd(u)
        \/ TextMsg(u)

Spec == Init /\ [][Next]_vars

(***************************************************************************)
(* The time validation of the bedtime and waketime steps, on its own: the  *)
(* input is drawn at the start and the step's check is applied to it.      *)
(***************************************************************************)

TimeAlphabet == {"0", "2", "3", "5", "7", ":", " "}

\* the longest text the time specification draws
MaxTimeLen == 5

TimeTexts == UNION {[1..n -> TimeAlphabet] : n \in 0..MaxTimeLen}

\* bedtime = update.message.text.strip(), then the strptime try block
time_step_accepts(raw) == valid_time(Strip(raw))

InitTime ==
    /\ InitWorld
    /\ tin \in TimeTexts
    /\ tres = "pending"
    /\ script = <<>>
    /\ pc = 0

ValidateTime ==
    /\ tres = "pending"
    /\ tres' = IF time_step_accepts(tin) THEN "accepted" ELSE "rejected"
    /\ UNCHANGED <<user_data, users, mood_logs, habits, habit_logs, ids,
                   today, out, tin, script, pc>>

NextTime == ValidateTime

SpecTime == InitTime /\ [][NextTime]_vars

(***************************************************************************)
(* The onboarding scenario: a user without a User record sends /start,     *)
(* four texts and Done, every gateway call succeeding.  script holds the   *)
(* four texts, pc counts the events delivered.                             *)
(***************************************************************************)

ScriptNames == {TxtAlex, TxtRun, TxtAlexPadded}
ScriptBedtimes == {Txt2230, Txt0700, Txt2500h}
ScriptWaketimes == {Txt0700, Txt2230, Txt0730}
ScriptWaters == {Txt2500, Txt4, Txt0, TxtMinus5, TxtAbc}

ScriptUser == CHOOSE u \in Actors : TRUE

\* the steps the four texts of script are meant for
ScriptSteps == <<"name", "bedtime", "waketime", "water_target">>

\* the events of the scenario: /start, the four texts, Done
ScriptLen == Len(ScriptSteps) + 2

InitOnboarding ==
    /\ InitWorld
    /\ tin = <<>>
    /\ tres = "idle"
    /\ script \in ScriptNames \X ScriptBedtimes \X ScriptWaketimes \X ScriptWaters
    /\ pc = 0

ScriptStart ==
    /\ pc = 0
    /\ Apply(start_command(World, ScriptUser, TRUE))
    /\ pc' = 1
    /\ UNCHANGED <<tin, tres, script>>

ScriptText ==
    /\ pc \in 1..Len(ScriptSteps)
    /\ Apply(handle_text_message(World, ScriptUser, script[pc], TRUE))
    /\ pc' = pc + 1
    /\ UNCHANGED <<tin, tres, script>>

ScriptDone ==
    /\ pc = Len(ScriptSteps) + 1
    /\ Apply(handle_text_message(World, ScriptUser, BtnDone, TRUE))
    /\ pc' = ScriptLen
    /\ UNCHANGED <<tin, tres, script>>

NextOnboarding == ScriptStart \/ ScriptText \/ ScriptDone

SpecOnboarding == InitOnboarding /\ [][NextOnboarding]_vars

(***************************************************************************)
(* The mood flow over several days: /mood, the texts of its two steps, and *)
(* the calendar date moving on between events.                             *)
(***************************************************************************)

\* the last day of a run (days are numbered from 0)
MaxDay == 1

MoodEnvTexts(d) ==
    CASE Get(d, "mood_step", "") = "rating" -> {Txt4, Txt2, Txt6}
      [] Get(d, "mood_step", "") = "note" -> {TxtSkip, TxtAlex}
      [] OTHER -> {TxtAlex}

MoodTextMsg(u) ==
    /\ \E text \in MoodEnvTexts(user_data[u]), ok \in GatewayOutcomes :
          Apply(handle_text_message(World, u, text, ok))
    /\ UNCHANGED Idle

\* midnight passes
Tick ==
    /\ today < MaxDay
    /\ today' = today + 1
    /\ UNCHANGED <<user_data, users, mood_logs, habits, habit_logs, ids, out>>
    /\ UNCHANGED Idle

NextMood ==
    \/ \E u \in Actors : MoodCmd(u)
    \/ \E u \in Actors : MoodTextMsg(u)
    \/ Tick

SpecMood == Init /\ [][NextMood]_vars

(***************************************************************************)
(* Habit management: /habits and the texts of its steps for the acting     *)
(* user, habit-toggle buttons pressed by any user, and the date moving on. *)
(***************************************************************************)

CbToggle(habit, completed) == HabitTogglePrefix \o habit \o <<"_">> \o completed

CbUnknown == <<"n", "o", "o", "p">>

\* toggles whose parts are no integers or are missing, and a payload of no
\* known action
StrayCallbacks ==
    {CbToggle(<<"a">>, <<"b">>), CbToggle(<<>>, <<"1">>),
     HabitTogglePrefix \o <<"1">>, CbUnknown}

\* the payloads of the buttons a user presses: the acting user toggles the
\* first two habit ids, any other user presses a button made for habit 1
ToggleData(u) ==
    IF u \in Actors
    THEN {CbToggle(<<"1">>, <<"1">>), CbToggle(<<"1">>, <<"0">>),
          CbToggle(<<"2">>, <<"1">>)}
    ELSE {CbToggle(<<"1">>, <<"1">>)}

CallbackData(u) ==
    ToggleData(u) \cup (IF u \in Actors THEN StrayCallbacks ELSE {})

CallbackQuery(u) ==
    /\ \E data \in CallbackData(u), ok \in GatewayOutcomes :
          Apply(handle_callback_query(World, u, data, ok))
    /\ UNCHANGED Idle

NextHabits ==
    \/ \E u \in Actors : HabitsCmd(u)
    \/ \E u \in Actors : TextMsg(u)
    \/ \E u \in Users : CallbackQuery(u)

SpecHabits == Init /\ [][NextHabits]_vars

(***************************************************************************)
(* Habit toggles over several days: the acting user has two habits, the    *)
(* buttons are pressed by any user and the date moves on.                  *)
(***************************************************************************)

\* the state after the acting user has sent /habits and a first habit name,
\* then /habits, Add Habit and a second name
InitToggle ==
    /\ user_data = [u \in Users |-> EmptyDict]
    /\ users = (CHOOSE a \in Actors : TRUE) :>
                    [username |-> <<>>,
                     preferred_name |-> <<"T", "g">>,
                     bedtime |-> DefaultBedtime,
                     waketime |-> DefaultWaketime,
                     water_target |-> DefaultWaterTarget,
                     spiritual_enabled |-> FALSE,
                     reading_enabled |-> FALSE,
                     habits_enabled |-> TRUE]
    /\ mood_logs = {}
    /\ habits = {[id |-> 1, user_id |-> CHOOSE a \in Actors : TRUE,
                  habit_name |-> TxtRun],
                 [id |-> 2, user_id |-> CHOOSE a \in Actors : TRUE,
                  habit_name |-> TxtAlex]}
    /\ habit_logs = {}
    /\ ids = [mood |-> 1, habit |-> 3, log |-> 1]
    /\ today = 0
    /\ out = [user |-> 0, reply |-> "none"]
    /\ tin = <<>>
    /\ tres = "idle"
    /\ script = <<>>
    /\ pc = 0

HabitToggle(u) ==
    /\ \E data \in ToggleData(u), ok \in GatewayOutcomes :
          Apply(handle_callback_query(World, u, data, ok))
    /\ UNCHANGED Idle

NextToggle ==
    \/ \E u \in Users : HabitToggle(u)
    \/ Tick

SpecToggle == InitToggle /\ [][NextToggle]_vars

(***************************************************************************)
(* The habit statistics on their own: the habits and the log table are     *)
(* drawn at the start, as the flows and the toggles of MaxStatDay + 1 days *)
(* leave them, and the statistics commands are applied to them.            *)
(***************************************************************************)

\* the last day of the drawn log table, which is today (days count from 0)
MaxStatDay == 3

StatUser == CHOOSE u \in Actors : TRUE

OtherUser == CHOOSE u \in Users : u # StatUser

\* two habits of one user, two habits of one name, a habit each for two users
HabitConfigs ==
    {{[id |-> 1, user_id |-> StatUser, habit_name |-> TxtRun],
      [id |-> 2, user_id |-> StatUser, habit_name |-> TxtAlex]},
     {[id |-> 1, user_id |-> StatUser, habit_name |-> TxtRun],
      [id |-> 2, user_id |-> StatUser, habit_name |-> TxtRun]},
     {[id |-> 1, user_id |-> StatUser, habit_name |-> TxtRun],
      [id |-> 2, user_id |-> OtherUser, habit_name |-> TxtAlex]}}

\* what StatUser's buttons left for a habit and day: no log, a log marked
\* completed, a log marked not completed (habit 1 only)
LogDraws ==
    {f \in [{1, 2} \X (0..MaxStatDay) -> {"none", "done", "missed"}] :
        \A d \in 0..MaxStatDay : f[<<2, d>>] # "missed"}

DrawnLogs(f) ==
    {[id |-> 2 * p[2] + p[1], user_id |-> StatUser, habit_id |-> p[1],
      date |-> p[2], completed |-> (f[p] = "done")] :
        p \in {q \in DOMAIN f : f[q] # "none"}}

DefaultUserRow ==
    [username |-> <<>>, preferred_name |-> <<"T", "g">>,
     bedtime |-> DefaultBedtime, waketime |-> DefaultWaketime,
     water_target |-> DefaultWaterTarget, spiritual_enabled |-> FALSE,
     reading_enabled |-> FALSE, habits_enabled |-> TRUE]

InitStats ==
    /\ user_data = [u \in Users |-> EmptyDict]
    /\ users = [u \in Users |-> DefaultUserRow]
    /\ mood_logs = {}
    /\ habits \in HabitConfigs
    /\ \E f \in LogDraws : habit_logs = DrawnLogs(f)
    /\ ids = [mood |-> 1, habit |-> 3, log |-> 2 * MaxStatDay + 3]
    /\ today = MaxStatDay
    /\ out = [user |-> 0, reply |-> "none"]
    /\ tin = <<>>
    /\ tres = "idle"
    /\ script = <<>>
    /\ pc = 0

HabitStreakCmd(u) ==
    /\ Apply(habitstreak_command(World, u))
    /\ UNCHANGED Idle

HabitTrackerCmd(u) ==
    /\ Apply(habittracker_command(World, u))
    /\ UNCHANGED Idle

HabitStatsCmd(u) ==
    /\ Apply(habitstats_command(World, u))
    /\ UNCHANGED Idle

DailyProgress(u) ==
    /\ Apply(show_daily_habits(World, u))
    /\ UNCHANGED Idle

NextStats ==
    \E u \in Actors :
        \/ HabitStreakCmd(u)
        \/ HabitTrackerCmd(u)
        \/ HabitStatsCmd(u)
        \/ DailyProgress(u)

SpecStats == InitStats /\ [][NextStats]_vars

(***************************************************************************)
(* The badge of /habitstats on its own: a percentage is drawn at the start *)
(* and the ladder of the command is applied to it.                         *)
(***************************************************************************)

\* percentages are drawn in steps of 1 / PctScale
PctScale == 10

PctDraws == {[num |-> n, den |-> PctScale] : n \in 0..(100 * PctScale)}

InitBadge ==
    /\ InitWorld
    /\ tin \in PctDraws
    /\ tres = "pending"
    /\ script = <<>>
    /\ pc = 0

Classify ==
    /\ tres = "pending"
    /\ tres' = badge(tin)
    /\ UNCHANGED <<user_data, users, mood_logs, habits, habit_logs, ids,
                   today, out, tin, script, pc>>

NextBadge == Classify

SpecBadge == InitBadge /\ [][NextBadge]_vars

(***************************************************************************)
(* The process restarted: the sessions live in the memory of the process   *)
(* (the application is built without persistence), the tables in the       *)
(* database file.                                                          *)
(***************************************************************************)

Restart ==
    /\ \E u \in Users : user_data[u] # EmptyDict
    /\ user_data' = [u \in Users |-> EmptyDict]
    /\ UNCHANGED <<users, mood_logs, habits, habit_logs, ids, today, out>>
    /\ UNCHANGED Idle

NextRestart ==
    \/ \E u \in Actors :
        \/ StartCmd(u)
        \/ MoodCmd(u)
        \/ TextMsg(u)
    \/ Restart

SpecRestart == Init /\ [][NextRestart]_vars

(***************************************************************************)
(* Two calls of the upserts of database.py in flight at once.  Each call   *)
(* opens its own connection, runs the SELECT for an existing row, then the *)
(* UPDATE or the INSERT, then commits; the tables carry no UNIQUE          *)
(* constraint on the key.  script[c] is the call of caller c: its          *)
(* arguments, how far it got, and the id its SELECT fetched.               *)
(***************************************************************************)

Callers == {1, 2}

RaceUser == CHOOSE u \in Actors : TRUE

\* cursor.fetchone() returned None
NoRow == 0

CallDraws ==
    {[op |-> "add_mood_entry", mood_score |-> m, stage |-> "called",
      existing |-> NoRow] : m \in {2, 4}}
    \cup {[op |-> "log_habit", completed |-> b, stage |-> "called",
           existing |-> NoRow] : b \in BOOLEAN}

InitRace ==
    /\ user_data = [u \in Users |-> EmptyDict]
    /\ users = RaceUser :> DefaultUserRow
    /\ mood_logs = {}
    /\ habits = {[id |-> 1, user_id |-> RaceUser, habit_name |-> TxtRun]}
    /\ habit_logs = {}
    /\ ids = [mood |-> 1, habit |-> 2, log |-> 1]
    /\ today = 0
    /\ out = [user |-> 0, reply |-> "none"]
    /\ tin = <<>>
    /\ tres = "idle"
    /\ script \in [Callers -> CallDraws]
    /\ pc = 0

\* fetchone() of the SELECT id: the id of the first row found, or None
Fetched(rows) == IF rows = {} THEN NoRow ELSE FirstRow(rows).id

\* SELECT id FROM mood_logs WHERE user_id = ? AND date = ?
SelectMood(c) ==
    /\ script[c].op = "add_mood_entry"
    /\ script[c].stage = "called"
    /\ script' = [script EXCEPT
                    ![c].existing = Fetched(MoodRowsFor(World, RaceUser, today)),
                    ![c].stage = "selected"]
    /\ UNCHANGED <<user_data, users, mood_logs, habits, habit_logs, ids,
                   today, out, tin, tres, pc>>

\* UPDATE mood_logs ... WHERE id = ?, or the INSERT; then conn.commit()
WriteMood(c) ==
    /\ script[c].op = "add_mood_entry"
    /\ script[c].stage = "selected"
    /\ IF script[c].existing # NoRow
       THEN /\ mood_logs' =
                 {IF r.id = script[c].existing
                  THEN [r EXCEPT !.mood_score = script[c].mood_score,
                                 !.note = NoneText]
                  ELSE r : r \in mood_logs}
            /\ ids' = ids
       ELSE /\ mood_logs' = mood_logs
                 \cup {[id |-> ids.mood, user_id |-> RaceUser,
                        date |-> today,
                        mood_score |-> script[c].mood_score,
                        note |-> NoneText]}
            /\ ids' = [ids EXCEPT !.mood = ids.mood + 1]
    /\ script' = [script EXCEPT ![c].stage = "done"]
    /\ UNCHANGED <<user_data, users, habits, habit_logs, today, out, tin,
                   tres, pc>>

\* SELECT id FROM habit_logs WHERE user_id = ? AND habit_id = ? AND date = ?
SelectLog(c) ==
    /\ script[c].op = "log_habit"
    /\ script[c].stage = "called"
    /\ script' = [script EXCEPT
                    ![c].existing =
                        Fetched({l \in habit_logs :
                                    /\ l.user_id = RaceUser
                                    /\ l.habit_id = 1
                                    /\ l.date = today}),
                    ![c].stage = "selected"]
    /\ UNCHANGED <<user_data, users, mood_logs, habits, habit_logs, ids,
                   today, out, tin, tres, pc>>

\* UPDATE habit_logs SET completed = ? WHERE id = ?, or the INSERT; then
\* conn.commit()
WriteLog(c) ==
    /\ script[c].op = "log_habit"
    /\ script[c].stage = "selected"
    /\ IF script[c].existing # NoRow
       THEN /\ habit_logs' =
                 {IF l.id = script[c].existing
                  THEN [l EXCEPT !.completed = script[c].completed]
                  ELSE l : l \in habit_logs}
            /\ ids' = ids
       ELSE /\ habit_logs' = habit_logs
                 \cup {[id |-> ids.log, user_id |-> RaceUser, habit_id |-> 1,
                        date |-> today,
                        completed |-> script[c].completed]}
            /\ ids' = [ids EXCEPT !.log = ids.log + 1]
    /\ script' = [script EXCEPT ![c].stage = "done"]
    /\ UNCHANGED <<user_data, users, mood_logs, habits, today, out, tin,
                   tres, pc>>

NextRace ==
    \E c \in Callers :
        \/ SelectMood(c)
        \/ WriteMood(c)
        \/ SelectLog(c)
        \/ WriteLog(c)

SpecRace == InitRace /\ [][NextRace]_vars

(***************************************************************************)
(* Properties                                                              *)
(***************************************************************************)

\* every text of the model: the properties below quantify over these at
\* each reachable state, whatever the environment sends
AllTexts ==
    {TxtAlex, TxtRun, Txt2230, Txt0700, Txt0730, Txt2500h, Txt2500, TxtMinus5,
     TxtAbc, Txt0, Txt2, Txt4, Txt6, TxtSkip, TxtSkipCap, TxtCancel,
     TxtCancelCap, TxtEmpty, TxtBlank, TxtAlexPadded, Txt4Padded,
     BtnSpiritual, BtnReading, BtnHabits, BtnDone, BtnChangeName,
     BtnChangeSleep, BtnChangeWater, BtnToggleModules, BtnCancel, BtnAddHabit,
     BtnDeleteHabit, BtnProgress, BtnBack, BtnDeleteRun, BtnDeleteAlex}

FlowMarkers == {"onboarding_step", "preferences_mode", "mood_step", "habit_step"}

ActiveFlows(d) == (DOMAIN d) \cap FlowMarkers

\* the persisted tables of w are those of the current state
SameTables(w) ==
    /\ w.users = users
    /\ w.mood_logs = mood_logs
    /\ w.habits = habits
    /\ w.habit_logs = habit_logs
    /\ w.ids = ids

\* C1: in every reachable state at most one flow marker of a user's session
\* is set
C1_AtMostOneFlow ==
    \A u \in Users : Cardinality(ActiveFlows(user_data[u])) <= 1

\* the flow a command reply shows to have just been started
JustStarted(tag) ==
    CASE tag = "preferences_menu" -> "preferences"
      [] tag \in {"mood_prompt", "mood_already_logged"} -> "mood"
      [] tag \in {"first_habit_prompt", "habits_menu"} -> "habit"
      [] OTHER -> "none"

\* C2: right after a command has started a flow, the user's next text goes
\* to the step handler of that flow, whatever flow was in progress before
C2_NewFlowHandlesNextText ==
    \A u \in Users :
        (out.user = u /\ JustStarted(out.reply) # "none")
            => Route(user_data[u]) = JustStarted(out.reply)

\* the text makes the step that handles it call a gateway write
CommitsOn(w, u, raw) ==
    LET d == w.ud[u]
        r == Route(d)
        text == Strip(raw)
    IN  \/ /\ r = "onboarding"
           /\ \/ d["onboarding_step"] = "name"
              \/ d["onboarding_step"] = "modules" /\ text = BtnDone
        \/ /\ r = "preferences"
           /\ \/ d["preferences_mode"] = "change_name"
              \/ d["preferences_mode"] = "change_waketime" /\ strptime_ok(text)
              \/ /\ d["preferences_mode"] = "change_water"
                 /\ IntParses(text)
                 /\ IntValue(text) > 0
              \/ d["preferences_mode"] = "toggle_modules" /\ text = BtnDone
        \/ /\ r = "mood"
           /\ d["mood_step"] = "note"
        \/ /\ r = "habit"
           /\ \/ /\ d["habit_step"] \in {"add_first", "add_new"}
                 /\ Lower(text) # TxtCancel
              \/ /\ d["habit_step"] = "delete"
                 /\ StartsWith(text, DeletePrefix)
                 /\ \E h \in get_user_habits(w, u) :
                        h.habit_name = SubSeq(text, 3, Len(text))

\* C3: a commit step whose gateway write fails leaves the user's session
\* (flow, step and scratch) as it was before the event
C3_FailedCommitKeepsSession ==
    \A u \in Actors : \A t \in AllTexts :
        CommitsOn(World, u, t)
            => handle_text_message(World, u, t, FALSE).ud[u] = user_data[u]

\* C5: /start enters onboarding at step name exactly when the user has no
\* User record; with a record it changes neither the session nor any table
C5_StartOnlyOnboardsNewUsers ==
    \A u \in Actors : \A ok \in GatewayOutcomes :
        LET r == start_command(World, u, ok)
        IN  IF get_user(World, u)
            THEN r.ud = user_data /\ SameTables(r)
            ELSE /\ Route(r.ud[u]) = "onboarding"
                 /\ r.ud[u]["onboarding_step"] = "name"

C5_Witness ==
    /\ out = [user |-> 1, reply |-> "welcome"]
    /\ Route(user_data[1]) = "onboarding"
    /\ user_data[1]["onboarding_step"] = "name"

TimeSteps(d) ==
    \/ Route(d) = "onboarding" /\ d["onboarding_step"] \in {"bedtime", "waketime"}
    \/ /\ Route(d) = "preferences"
       /\ d["preferences_mode"] \in {"change_bedtime", "change_waketime"}

WaterSteps(d) ==
    \/ Route(d) = "onboarding" /\ d["onboarding_step"] = "water_target"
    \/ Route(d) = "preferences" /\ d["preferences_mode"] = "change_water"

\* two-digit HH in 00..23, a colon, two-digit MM in 00..59
IsHHMM(s) ==
    /\ Len(s) = 5
    /\ s[3] = ":"
    /\ \A i \in {1, 2, 4, 5} : s[i] \in Digits
    /\ 10 * DigitVal(s[1]) + DigitVal(s[2]) <= 23
    /\ 10 * DigitVal(s[4]) + DigitVal(s[5]) <= 59

\* the text is not a valid HH:MM time, or not a positive integer
FailsValidation(d, raw) ==
    \/ TimeSteps(d) /\ ~IsHHMM(Strip(raw))
    \/ WaterSteps(d) /\ ~(IntParses(Strip(raw)) /\ IntValue(Strip(raw)) > 0)

\* C6: at the typed time and number steps an input that fails validation
\* leaves the session (step and scratch) as it was and writes nothing
C6_InvalidInputChangesNothing ==
    \A u \in Actors : \A t \in AllTexts : \A ok \in GatewayOutcomes :
        FailsValidation(user_data[u], t)
            => LET r == handle_text_message(World, u, t, ok)
               IN  r.ud = user_data /\ SameTables(r)

RatingTokens == {<<"1">>, <<"2">>, <<"3">>, <<"4">>, <<"5">>}

AtRatingStep(d) == Route(d) = "mood" /\ d["mood_step"] = "rating"

\* C8: at the rating step the tokens "1".."5" store the rating and move to the
\* note step; any other text leaves step and scratch as they were; neither
\* writes a MoodEntry
C8_OnlyRatingTokensAdvance ==
    \A u \in Actors : \A t \in AllTexts : \A ok \in GatewayOutcomes :
        AtRatingStep(user_data[u])
            => LET r == handle_text_message(World, u, t, ok)
                   d == user_data[u]
               IN  /\ SameTables(r)
                   /\ IF Strip(t) \in RatingTokens
                      THEN r.ud[u] = Put(Put(d, "mood_rating", DigitVal(Strip(t)[1])),
                                         "mood_step", "note")
                      ELSE r.ud = user_data

C8_Witness ==
    /\ out = [user |-> 1, reply |-> "ask_note"]
    /\ Route(user_data[1]) = "mood"
    /\ user_data[1]["mood_step"] = "note"
    /\ user_data[1]["mood_rating"] = 4
    /\ mood_logs = {}

\* C10: every persisted MoodEntry has a score in 1..5 and every persisted
\* User record a water target above 0
C10_PersistedRanges ==
    /\ \A r \in mood_logs : r.mood_score \in 1..5
    /\ \A u \in DOMAIN users : users[u].water_target > 0

C10_Witness ==
    /\ \E r \in mood_logs : r.user_id = 1 /\ r.mood_score = 4
    /\ get_user(World, 1)
    /\ users[1].water_target = 4

\* C7: the time validation of the bedtime and waketime steps accepts exactly
\* the strings HH:MM with two-digit HH in 00..23 and two-digit MM in 00..59
C7_TimeValidationIsHHMM ==
    tres # "pending" => (tres = "accepted" <=> IsHHMM(Strip(tin)))

IsPositiveInt(s) == AllDigits(s) /\ DigitsVal(s) > 0

IsName(s) == s # <<>> /\ Strip(s) = s

\* C4: for a new user and a gateway that succeeds, /start, a name, a valid
\* bedtime, a valid waketime, a positive water target and an immediate Done
\* end with exactly these values in the User record, the module flags at
\* false, false, true, and an empty session
C4_OnboardingScenario ==
    (/\ pc = ScriptLen
     /\ IsName(script[1])
     /\ IsHHMM(script[2])
     /\ IsHHMM(script[3])
     /\ IsPositiveInt(script[4]))
        => /\ get_user(World, ScriptUser)
           /\ users[ScriptUser].preferred_name = script[1]
           /\ users[ScriptUser].bedtime = script[2]
           /\ users[ScriptUser].waketime = script[3]
           /\ users[ScriptUser].water_target = DigitsVal(script[4])
           /\ users[ScriptUser].spiritual_enabled = FALSE
           /\ users[ScriptUser].reading_enabled = FALSE
           /\ users[ScriptUser].habits_enabled = TRUE
           /\ Route(user_data[ScriptUser]) = "none"
           /\ user_data[ScriptUser] = EmptyDict

C4_Witness ==
    /\ pc = ScriptLen
    /\ script = <<TxtAlex, Txt2230, Txt0700, Txt2500>>
    /\ out = [user |-> ScriptUser, reply |-> "onboarding_complete"]
    /\ users[ScriptUser].preferred_name = TxtAlex
    /\ users[ScriptUser].water_target = 2500

SameDayRows(w) ==
    \A r1, r2 \in w.mood_logs :
        (r1.user_id = r2.user_id /\ r1.date = r2.date) => r1 = r2

AtNoteStep(d) == Route(d) = "mood" /\ d["mood_step"] = "note"

\* C9: there is never more than one MoodEntry per user and date, and
\* completing the mood flow (again) on a date leaves exactly one entry for
\* that date, with the score of this last submission
C9_OneMoodEntryPerDay ==
    /\ SameDayRows(World)
    /\ \A u \in Actors : \A t \in AllTexts :
        AtNoteStep(user_data[u])
            => LET r == handle_text_message(World, u, t, TRUE)
                   rows == MoodRowsFor(r, u, today)
               IN  /\ SameDayRows(r)
                   /\ Cardinality(rows) = 1
                   /\ \A e \in rows : e.mood_score = user_data[u]["mood_rating"]
                   /\ r.mood_logs \ rows = mood_logs \ MoodRowsFor(World, u, today)

\* an entry of score 4 exists for today and a second submission, rated 2,
\* is about to be committed
C9_Witness ==
    /\ AtNoteStep(user_data[1])
    /\ user_data[1]["mood_rating"] = 2
    /\ \E e \in MoodRowsFor(World, 1, today) : e.mood_score = 4
    /\ \A t \in {TxtSkip, TxtAlex} :
        \A e \in MoodRowsFor(handle_text_message(World, 1, t, TRUE), 1, today) :
            e.mood_score = 2

LogsOf(w, u, h, date) ==
    {l \in w.habit_logs : l.user_id = u /\ l.habit_id = h /\ l.date = date}

OneLogPerKey(w) ==
    \A l1, l2 \in w.habit_logs :
        (/\ l1.user_id = l2.user_id
         /\ l1.habit_id = l2.habit_id
         /\ l1.date = l2.date) => l1 = l2

\* C11: there is never more than one HabitLog per user, habit and date; a
\* toggle for a habit that already has the user's log for today sets that
\* log's completed value, adds no row and leaves every other log alone
C11_OneHabitLogPerDay ==
    /\ OneLogPerKey(World)
    /\ \A u \in Users : \A h \in {1, 2} : \A c \in {0, 1} :
        LET data == CbToggle(<<IF h = 1 THEN "1" ELSE "2">>,
                             <<IF c = 1 THEN "1" ELSE "0">>)
            r == handle_callback_query(World, u, data, TRUE)
        IN  /\ OneLogPerKey(r)
            /\ \A l \in LogsOf(r, u, h, today) : l.completed = (c = 1)
            /\ LogsOf(r, u, h, today) # {}
            /\ r.habit_logs \ LogsOf(r, u, h, today)
                    = habit_logs \ LogsOf(World, u, h, today)
            /\ LogsOf(World, u, h, today) # {}
                    => Cardinality(r.habit_logs) = Cardinality(habit_logs)

\* the acting user's log of habit 1, completed yesterday, was set and then
\* unset today, beside another user's log of the same habit and date
C11_Witness ==
    /\ today = 1
    /\ out = [user |-> 1, reply |-> "habit_progress"]
    /\ \E l \in LogsOf(World, 1, 1, 0) : l.completed
    /\ \E l \in LogsOf(World, 1, 1, 1) : ~l.completed
    /\ \E l \in LogsOf(World, 2, 1, 1) : l.completed

AtDeleteStep(d) == Route(d) = "habit" /\ d["habit_step"] = "delete"

\* C12: a successful delete of habit h at the delete step leaves no HabitLog
\* of h for any date, takes h off the user's habits, and changes no other
\* habit and no log of another habit
C12_DeleteRemovesLogs ==
    \A u \in Actors : \A t \in {BtnDeleteRun, BtnDeleteAlex} :
        LET name == SubSeq(t, 3, Len(t))
            r == handle_text_message(World, u, t, TRUE)
        IN  (/\ AtDeleteStep(user_data[u])
             /\ \E h \in get_user_habits(World, u) : h.habit_name = name)
                => \E h \in get_user_habits(World, u) :
                        /\ h.habit_name = name
                        /\ r.habits = habits \ {h}
                        /\ \A l \in r.habit_logs : l.habit_id # h.id
                        /\ {l \in r.habit_logs : l.habit_id # h.id}
                                = {l \in habit_logs : l.habit_id # h.id}

HabitCount(u) == Cardinality({h \in habits : h.user_id = u})

\* the completed logs of u's habits on a date
CompletedLogs(u, date) ==
    {l \in habit_logs :
        /\ l.date = date
        /\ l.completed
        /\ \E h \in habits : h.id = l.habit_id /\ h.user_id = u}

FullDay(u, date) == Cardinality(CompletedLogs(u, date)) = HabitCount(u)

\* C13: the streak is the largest k such that each of the k days today,
\* today-1, ..., today-k+1 has as many completed logs of the user's habits
\* as the user has habits; it is 0 for a user without habits
C13_StreakIsLongestFullRun ==
    \A u \in Users :
        LET k == get_habit_streak(World, u)
        IN  IF HabitCount(u) = 0 THEN k = 0
            ELSE /\ k >= 0
                 /\ \A i \in 0..(k - 1) : FullDay(u, today - i)
                 /\ ~FullDay(u, today - k)

\* two habits, both completed today and on the two days before, one of
\* them on the day before those: /habitstreak has answered 3
C13_Witness ==
    /\ out = [user |-> StatUser, reply |-> "habit_streak", value |-> 3]
    /\ HabitCount(StatUser) = 2
    /\ \A i \in 0..2 : Cardinality(CompletedLogs(StatUser, today - i)) = 2
    /\ Cardinality(CompletedLogs(StatUser, today - 3)) = 1

\* u's log rows of habit h in the 7 days ending today
WindowLogs(u, h) ==
    {l \in habit_logs :
        /\ l.user_id = u
        /\ l.habit_id = h.id
        /\ l.date \in (today - 6)..today}

\* pct is x / y * 100
IsPercentageOf(pct, x, y) == pct.num * y = 100 * x * pct.den

\* C14: for every habit with a log row in the 7 days ending today, the
\* weekly stats give the number of its completed rows in the window, the
\* number of its rows in the window, and the first over the second times 100
C14_WeeklyStatsCountWindowRows ==
    \A u \in Users : \A h \in get_user_habits(World, u) :
        WindowLogs(u, h) # {}
            => LET stats == get_habit_stats_weekly(World, u)
                   rows == WindowLogs(u, h)
                   done == {l \in rows : l.completed}
               IN  /\ h.habit_name \in DOMAIN stats
                   /\ stats[h.habit_name].completed = Cardinality(done)
                   /\ stats[h.habit_name].total = Cardinality(rows)
                   /\ IsPercentageOf(stats[h.habit_name].percentage,
                                     Cardinality(done), Cardinality(rows))

\* C15: a habit with no log row in the 7-day window is reported with
\* total_days_logged = 0 and percentage = 0
C15_NoLogsMeansZeroTotal ==
    \A u \in Users : \A h \in get_user_habits(World, u) :
        (\A g \in get_user_habits(World, u) :
            g.habit_name = h.habit_name => WindowLogs(u, g) = {})
            => LET stats == get_habit_stats_weekly(World, u)
               IN  /\ h.habit_name \in DOMAIN stats
                   /\ stats[h.habit_name].total = 0
                   /\ stats[h.habit_name].percentage.num = 0

\* the log rows of u's habits, over all dates
HistoryLogs(u) ==
    {l \in habit_logs : \E h \in habits : h.id = l.habit_id /\ h.user_id = u}

\* C16: the overall stats give the number of log rows of the user's habits,
\* the number of those marked completed (never more than the total), and
\* completed / total * 100, or 0 when there is no row
C16_OverallStatsCountHistory ==
    \A u \in Users :
        LET stats == get_habit_overall_stats(World, u)
            done == {l \in HistoryLogs(u) : l.completed}
        IN  /\ stats.total_logs = Cardinality(HistoryLogs(u))
            /\ stats.completed_logs = Cardinality(done)
            /\ stats.completed_logs <= stats.total_logs
            /\ IF stats.total_logs = 0
               THEN stats.completion_percentage.num = 0
               ELSE IsPercentageOf(stats.completion_percentage,
                                   Cardinality(done),
                                   Cardinality(HistoryLogs(u)))

\* /habitstats has answered a user with three log rows, two of them
\* completed
C16_Witness ==
    /\ out.user = StatUser
    /\ out.reply = "habit_badge"
    /\ out.value.stats.total_logs = 3
    /\ out.value.stats.completed_logs = 2
    /\ Cardinality(HistoryLogs(StatUser)) = 3
    /\ AtLeast(out.value.stats.completion_percentage, 66)
    /\ ~AtLeast(out.value.stats.completion_percentage, 67)

\* the tiers from the lowest to the highest, and the percentage from which
\* each of the upper five is given
Tiers == <<"BEGINNER", "STARTER", "BUILDER", "ACHIEVER", "CHAMPION", "LEGEND">>

TierThresholds == <<40, 60, 70, 80, 90>>

TierRank(b) == CHOOSE i \in DOMAIN Tiers : Tiers[i] = b

\* p >= n for a percentage p = num / den
PctAtLeast(p, n) == p.num >= n * p.den

\* p <= q
PctLE(p, q) == p.num * q.den <= q.num * p.den

\* C17: a percentage gets the highest tier whose threshold it reaches (the
\* thresholds 90, 80, 70, 60, 40 included), the lowest tier below 40, and
\* never a lower tier than a smaller percentage gets
C17_BadgeThresholds ==
    tres # "pending"
        => /\ tres \in {Tiers[i] : i \in DOMAIN Tiers}
           /\ TierRank(tres) =
                1 + Cardinality({i \in DOMAIN TierThresholds :
                                    PctAtLeast(tin, TierThresholds[i])})
           /\ \A q \in PctDraws :
                PctLE(q, tin) => TierRank(badge(q)) <= TierRank(tres)

\* 89.9 has been given the second tier
C17_Witness ==
    /\ tin.num * 10 = 899 * tin.den
    /\ tres = "CHAMPION"

\* C18: the daily completion list of a user and a date has exactly one entry
\* per habit of the user, in the order of the habit names, and an entry is
\* completed exactly when the user's log of the habit on the date is
C18_DailyListOnePerHabit ==
    \A u \in Users, date \in 0..today :
        LET lists == get_habit_logs_for_date(World, u, date)
        IN  /\ lists # {}
            /\ \A entries \in lists :
                /\ \A h \in habits :
                     h.user_id = u
                        => Cardinality({i \in DOMAIN entries :
                                entries[i].habit_id = h.id}) = 1
                /\ \A i \in DOMAIN entries :
                     /\ \E h \in habits :
                          /\ h.user_id = u
                          /\ h.id = entries[i].habit_id
                          /\ h.habit_name = entries[i].habit_name
                     /\ entries[i].completed
                          <=> \E l \in habit_logs :
                                /\ l.user_id = u
                                /\ l.habit_id = entries[i].habit_id
                                /\ l.date = date
                                /\ l.completed
                /\ \A i, j \in DOMAIN entries :
                     i < j => TextLE(entries[i].habit_name,
                                     entries[j].habit_name)

\* today's progress has been shown to a user with a completed habit, a
\* habit logged as missed and no third one
C18_Witness ==
    /\ out.reply = "daily_progress"
    /\ out.user = StatUser
    /\ \E entries \in out.value :
         /\ Len(entries) = 2
         /\ ~entries[1].completed
         /\ entries[2].completed
         /\ \E l \in habit_logs :
              /\ l.user_id = StatUser
              /\ l.habit_id = entries[1].habit_id
              /\ l.date = today
              /\ ~l.completed

\* the rows a user owns in the four tables
PersistedRows(w, b) ==
    [users |-> IF get_user(w, b) THEN {w.users[b]} ELSE {},
     mood_logs |-> {r \in w.mood_logs : r.user_id = b},
     habits |-> {r \in w.habits : r.user_id = b},
     habit_logs |-> {r \in w.habit_logs : r.user_id = b}]

\* what the claim says an event of another user leaves alone
OwnView(w, b) ==
    [session |-> w.ud[b],
     rows |-> PersistedRows(w, b),
     streak |-> get_habit_streak(w, b),
     weekly |-> get_habit_stats_weekly(w, b),
     overall |-> get_habit_overall_stats(w, b)]

\* C19: a button event of user a, the payload naming a habit of user b
\* included, changes neither the session of b, nor the rows of b, nor the
\* streak, the weekly stats or the overall stats of b
C19_UsersIndependent ==
    \A a \in Users, b \in Users :
        a # b =>
            \A data \in CallbackData(a), ok \in GatewayOutcomes :
                OwnView(handle_callback_query(World, a, data, ok), b)
                    = OwnView(World, b)

\* C20: no event ends in an exception that leaves its handler, whatever the
\* text or the button payload is
C20_NoUnhandledFault == out.reply # "fault"

\* the menu-style steps and the tokens each of them expects
MenuStep(d) ==
    CASE Route(d) = "preferences" /\ d["preferences_mode"] = "main_menu" ->
            "main_menu"
      [] Route(d) = "preferences" /\ d["preferences_mode"] = "toggle_modules" ->
            "modules"
      [] Route(d) = "onboarding" /\ d["onboarding_step"] = "modules" ->
            "modules"
      [] Route(d) = "habit" /\ d["habit_step"] = "manage" -> "manage"
      [] Route(d) = "habit" /\ d["habit_step"] = "delete" -> "delete"
      [] OTHER -> "none"

ExpectedToken(menu, text) ==
    CASE menu = "main_menu" ->
            text \in {BtnChangeName, BtnChangeSleep, BtnChangeWater,
                      BtnToggleModules, BtnCancel}
      [] menu = "modules" ->
            text \in {BtnSpiritual, BtnReading, BtnHabits, BtnDone}
      [] menu = "manage" ->
            text \in {BtnAddHabit, BtnDeleteHabit, BtnProgress, BtnCancel}
      [] menu = "delete" -> text = BtnBack \/ StartsWith(text, DeletePrefix)
      [] OTHER -> TRUE

\* C21: at a menu-style step a text that is none of the step's tokens leaves
\* the session and the tables as they were and is answered with a reply
C21_UnrecognizedMenuInputAnswered ==
    \A u \in Actors : \A t \in AllTexts : \A ok \in GatewayOutcomes :
        (/\ MenuStep(user_data[u]) # "none"
         /\ ~ExpectedToken(MenuStep(user_data[u]), Strip(t)))
            => LET r == handle_text_message(World, u, t, ok)
               IN  /\ r.ud = user_data
                   /\ SameTables(r)
                   /\ r.out.reply # "none"

\* C22: a text of a user with no flow open is answered by the "use /help"
\* fallback and changes neither a session nor a table
C22_NoFlowTextGetsFallback ==
    \A u \in Users : \A t \in AllTexts : \A ok \in GatewayOutcomes :
        ActiveFlows(user_data[u]) = {}
            => LET r == handle_text_message(World, u, t, ok)
               IN  /\ r.out = [user |-> u, reply |-> "use_help"]
                   /\ r.ud = user_data
                   /\ SameTables(r)

\* a user who has a row and has closed a flow got the fallback
C22_Witness ==
    /\ out = [user |-> 1, reply |-> "use_help"]
    /\ ActiveFlows(user_data[1]) = {}
    /\ get_user(World, 1)
    /\ users[1].preferred_name = TxtAlex

PreferencesMode(d) ==
    IF Route(d) = "preferences" THEN d["preferences_mode"] ELSE "none"

\* C23: at change_bedtime nothing is written and a valid bedtime goes to the
\* scratch; a text of the preferences flow changes the persisted bedtime or
\* waketime only at change_waketime, when it is a valid waketime, and then
\* both are written: the bedtime of the scratch and this waketime
C23_SleepTimesCommitTogether ==
    \A u \in Actors : \A t \in AllTexts : \A ok \in GatewayOutcomes :
        LET d == user_data[u]
            text == Strip(t)
            r == handle_text_message(World, u, t, ok)
        IN  /\ PreferencesMode(d) = "change_bedtime"
                => /\ SameTables(r)
                   /\ IsHHMM(text)
                        => r.ud[u] = Put(Put(d, "new_bedtime", text),
                                         "preferences_mode", "change_waketime")
            /\ (PreferencesMode(d) = "change_waketime" /\ IsHHMM(text) /\ ok)
                => /\ r.users[u].bedtime = d["new_bedtime"]
                   /\ r.users[u].waketime = text
            /\ (/\ PreferencesMode(d) # "none"
                /\ get_user(World, u)
                /\ \/ r.users[u].bedtime # users[u].bedtime
                   \/ r.users[u].waketime # users[u].waketime)
                => /\ PreferencesMode(d) = "change_waketime"
                   /\ IsHHMM(text)
                   /\ r.users[u].bedtime = d["new_bedtime"]
                   /\ r.users[u].waketime = text

\* C24: Cancel at the main menu of the preferences closes the flow and
\* leaves the tables, the user's row among them, as they were
C24_CancelResetsWithoutPersisting ==
    \A u \in Actors : \A t \in AllTexts : \A ok \in GatewayOutcomes :
        (PreferencesMode(user_data[u]) = "main_menu" /\ Strip(t) = BtnCancel)
            => LET r == handle_text_message(World, u, t, ok)
               IN  /\ ActiveFlows(r.ud[u]) = {}
                   /\ SameTables(r)
                   /\ \A v \in Users \ {u} : r.ud[v] = user_data[v]

\* a user whose name and water target are set has cancelled the menu
C24_Witness ==
    /\ out = [user |-> 1, reply |-> "preferences_cancelled"]
    /\ ActiveFlows(user_data[1]) = {}
    /\ get_user(World, 1)
    /\ users[1].preferred_name = TxtAlex
    /\ users[1].water_target = 4

\* the leaf steps of the preferences flow
LeafModes == {"change_name", "change_waketime", "change_water", "toggle_modules"}

\* the text is a valid input of the leaf step
LeafInput(mode, text) ==
    CASE mode = "change_name" -> text # <<>>
      [] mode = "change_waketime" -> IsHHMM(text)
      [] mode = "change_water" -> IsPositiveInt(text)
      [] mode = "toggle_modules" -> text = BtnDone
      [] OTHER -> FALSE

\* the user's row after the leaf step has committed
LeafRow(row, d, mode, text) ==
    CASE mode = "change_name" -> [row EXCEPT !.preferred_name = text]
      [] mode = "change_waketime" ->
            [row EXCEPT !.bedtime = d["new_bedtime"], !.waketime = text]
      [] mode = "change_water" -> [row EXCEPT !.water_target = DigitsVal(text)]
      [] mode = "toggle_modules" ->
            [row EXCEPT !.spiritual_enabled = d["spiritual_enabled"],
                        !.reading_enabled = d["reading_enabled"],
                        !.habits_enabled = d["habits_enabled"]]

\* C25: a leaf step of the preferences, given a valid input and a gateway
\* that succeeds, changes exactly the fields of its branch in the user's
\* row, nothing else in the tables, and closes the flow
C25_LeafUpdatesItsFields ==
    \A u \in Actors : \A t \in AllTexts :
        LET d == user_data[u]
            mode == PreferencesMode(d)
            text == Strip(t)
            r == handle_text_message(World, u, t, TRUE)
        IN  (mode \in LeafModes /\ LeafInput(mode, text))
                => /\ r.users = [users EXCEPT
                                    ![u] = LeafRow(users[u], d, mode, text)]
                   /\ r.mood_logs = mood_logs
                   /\ r.habits = habits
                   /\ r.habit_logs = habit_logs
                   /\ ActiveFlows(r.ud[u]) = {}

\* the water leaf has committed for a user whose other fields are set
C25_Witness ==
    /\ out = [user |-> 1, reply |-> "preferences_updated"]
    /\ ActiveFlows(user_data[1]) = {}
    /\ users[1].water_target = 4
    /\ users[1].preferred_name = TxtAlex
    /\ users[1].bedtime = Txt2230
    /\ users[1].spiritual_enabled

ModuleFlags(row) ==
    <<row.spiritual_enabled, row.reading_enabled, row.habits_enabled>>

\* C26: Toggle Modules at the main menu opens the sub-loop with the flags of
\* the user's row, and Done pressed right after leaves the row as it was
C26_ToggleModulesSeededFromRow ==
    \A u \in Actors : \A ok \in GatewayOutcomes :
        PreferencesMode(user_data[u]) = "main_menu"
            => LET entered == handle_text_message(World, u, BtnToggleModules, ok)
                   done == handle_text_message(entered, u, BtnDone, ok)
               IN  /\ PreferencesMode(entered.ud[u]) = "toggle_modules"
                   /\ ModuleFlags(entered.ud[u]) = ModuleFlags(users[u])
                   /\ ModuleFlags(done.users[u]) = ModuleFlags(users[u])
                   /\ done.users = users

\* the sub-loop has been opened for a user whose flags are not the defaults
C26_Witness ==
    /\ out = [user |-> 1, reply |-> "module_selection"]
    /\ PreferencesMode(user_data[1]) = "toggle_modules"
    /\ ModuleFlags(users[1]) = <<TRUE, FALSE, FALSE>>
    /\ ModuleFlags(user_data[1]) = <<TRUE, FALSE, FALSE>>

\* C27: /habits opens the habit flow at add_first when the user has no
\* habit at that moment and at manage when the user has one or more
C27_HabitsEntryStep ==
    \A u \in Users : \A ok \in GatewayOutcomes :
        LET r == habits_command(World, u, ok)
        IN  /\ Has(r.ud[u], "habit_step")
            /\ r.ud[u]["habit_step"] =
                  IF \E h \in habits : h.user_id = u
                  THEN "manage" ELSE "add_first"

\* /habits has opened the menu for a user with a habit
C27_Witness ==
    /\ out = [user |-> 1, reply |-> "habits_menu"]
    /\ user_data[1]["habit_step"] = "manage"
    /\ \E h \in habits : h.user_id = 1 /\ h.habit_name = TxtRun

HabitStep(d) == IF Route(d) = "habit" THEN d["habit_step"] ELSE "none"

\* C28: Today's Progress at the manage menu closes the flow and leaves every
\* table as it was
C28_ProgressIsReadOnly ==
    \A u \in Actors : \A t \in AllTexts : \A ok \in GatewayOutcomes :
        (HabitStep(user_data[u]) = "manage" /\ Strip(t) = BtnProgress)
            => LET r == handle_text_message(World, u, t, ok)
               IN  /\ ActiveFlows(r.ud[u]) = {}
                   /\ SameTables(r)
                   /\ r.out.reply \in {"daily_progress", "no_habits_to_track"}

\* the progress of a user with a completed habit has been shown
C28_Witness ==
    /\ out.user = 1
    /\ out.reply = "daily_progress"
    /\ ActiveFlows(user_data[1]) = {}
    /\ \E h \in habits, l \in habit_logs :
            /\ h.user_id = 1
            /\ l.user_id = 1
            /\ l.habit_id = h.id
            /\ l.completed

\* the steps that take a free text as a name
NameStep(d) ==
    \/ Route(d) = "onboarding" /\ d["onboarding_step"] = "name"
    \/ PreferencesMode(d) = "change_name"
    \/ HabitStep(d) \in {"add_first", "add_new"}

\* C29: at a name step a text that is empty once trimmed is not committed:
\* no table changes
C29_EmptyNameNeverCommitted ==
    \A u \in Actors : \A t \in AllTexts : \A ok \in GatewayOutcomes :
        (NameStep(user_data[u]) /\ Strip(t) = <<>>)
            => SameTables(handle_text_message(World, u, t, ok))

\* the steps of the onboarding in their order
OnboardingOrder == <<"name", "bedtime", "waketime", "water_target", "modules">>

StepIndex(step) == CHOOSE i \in DOMAIN OnboardingOrder : OnboardingOrder[i] = step

\* C30: a text of the onboarding leaves the step as it is or moves it to
\* the next one of the order; the flow is left only at modules, by Done,
\* and then no flow is open
C30_OnboardingStepsInOrder ==
    \A u \in Actors : \A t \in AllTexts : \A ok \in GatewayOutcomes :
        Route(user_data[u]) = "onboarding"
            => LET step == user_data[u]["onboarding_step"]
                   after == handle_text_message(World, u, t, ok).ud[u]
               IN  /\ \E i \in DOMAIN OnboardingOrder : OnboardingOrder[i] = step
                   /\ IF Has(after, "onboarding_step")
                      THEN \/ after["onboarding_step"] = step
                           \/ /\ step # "modules"
                              /\ after["onboarding_step"] =
                                    OnboardingOrder[StepIndex(step) + 1]
                      ELSE /\ step = "modules"
                           /\ Strip(t) = BtnDone
                           /\ ActiveFlows(after) = {}

\* a module button has been pressed and the step is still modules
C30_Witness ==
    /\ out = [user |-> 1, reply |-> "module_toggled"]
    /\ Route(user_data[1]) = "onboarding"
    /\ user_data[1]["onboarding_step"] = "modules"
    /\ user_data[1]["spiritual_enabled"]
    /\ user_data[1]["water_target"] = 4

\* the scratch key a module button stands for
ModuleKey(text) ==
    CASE text = BtnSpiritual -> "spiritual_enabled"
      [] text = BtnReading -> "reading_enabled"
      [] text = BtnHabits -> "habits_enabled"

ModuleButtons == {BtnSpiritual, BtnReading, BtnHabits}

\* C31: at a modules step a module button flips that module's flag in the
\* scratch and nothing else, and writes nothing; pressed twice it gives the
\* session back, so Done commits what it would have committed without; no
\* text but Done changes the persisted flags
C31_ToggleFlipsOneScratchFlag ==
    \A u \in Actors : \A t \in AllTexts : \A ok \in GatewayOutcomes :
        MenuStep(user_data[u]) = "modules"
            => LET d == user_data[u]
                   text == Strip(t)
                   once == handle_text_message(World, u, t, ok)
                   twice == handle_text_message(once, u, t, ok)
               IN  /\ text \in ModuleButtons
                        => /\ SameTables(once)
                           /\ once.ud[u] = [d EXCEPT ![ModuleKey(text)] =
                                                ~d[ModuleKey(text)]]
                           /\ twice.ud[u] = d
                           /\ handle_text_message(twice, u, BtnDone, ok).users
                                = handle_text_message(World, u, BtnDone, ok).users
                   /\ (get_user(World, u)
                       /\ ModuleFlags(once.users[u]) # ModuleFlags(users[u]))
                        => text = BtnDone

\* in the preferences a module was switched off in the scratch while the row
\* still has it on
C31_Witness ==
    /\ out = [user |-> 1, reply |-> "module_toggled"]
    /\ PreferencesMode(user_data[1]) = "toggle_modules"
    /\ ~user_data[1]["habits_enabled"]
    /\ users[1].habits_enabled

\* C32: every habit log is of a habit that exists and belongs to the user
\* the log is stored under
C32_LogsReferenceOwnHabit ==
    \A l \in habit_logs :
        \E h \in habits : h.id = l.habit_id /\ h.user_id = l.user_id

\* C33: when Done at the modules step of the onboarding reports completion,
\* the user has a row, and its sleep times, water target and module flags
\* are those of the scratch
C33_CompletionMeansUserSaved ==
    \A u \in Actors : \A ok \in GatewayOutcomes :
        (Route(user_data[u]) = "onboarding"
         /\ user_data[u]["onboarding_step"] = "modules")
            => LET d == user_data[u]
                   r == handle_text_message(World, u, BtnDone, ok)
               IN  r.out.reply = "onboarding_complete"
                    => /\ ActiveFlows(r.ud[u]) = {}
                       /\ get_user(r, u)
                       /\ r.users[u].bedtime = d["bedtime"]
                       /\ r.users[u].waketime = d["waketime"]
                       /\ r.users[u].water_target = d["water_target"]
                       /\ ModuleFlags(r.users[u]) = ModuleFlags(d)

OnboardingStep(d) ==
    IF Has(d, "onboarding_step") THEN d["onboarding_step"] ELSE "none"

\* C34: once a user has a row, no step puts the session at the onboarding
\* step name unless it was there already, whether the first onboarding was
\* completed, left unfinished or lost with the process
C34_OnboardingEnteredOnce ==
    [][\A u \in Users :
        (get_user(World, u) /\ OnboardingStep(user_data'[u]) = "name")
            => OnboardingStep(user_data[u]) = "name"]_vars

\* /start was answered with the welcome back for a user whose onboarding got
\* as far as the name prompt and whose session is gone
C34_Witness ==
    /\ out = [user |-> 1, reply |-> "welcome_back"]
    /\ user_data[1] = EmptyDict
    /\ get_user(World, 1)
    /\ users[1].preferred_name = <<>>

IsCancelToken(text) ==
    /\ Len(text) = Len(TxtCancel)
    /\ \A i \in 1..Len(text) : LowerChar(text[i]) = TxtCancel[i]

\* C36: at add_first and add_new the cancel token, in any case, closes the
\* flow and adds nothing; any other text, the write succeeding, adds one
\* habit of the user with the text as its name, leaves the habits and logs
\* there were as they are, and closes the flow
C36_AddStepAddsOneHabit ==
    \A u \in Actors : \A t \in AllTexts :
        HabitStep(user_data[u]) \in {"add_first", "add_new"}
            => LET r == handle_text_message(World, u, t, TRUE)
               IN  /\ ActiveFlows(r.ud[u]) = {}
                   /\ r.habit_logs = habit_logs
                   /\ r.users = users
                   /\ r.mood_logs = mood_logs
                   /\ IF IsCancelToken(Strip(t))
                      THEN r.habits = habits
                      ELSE /\ habits \subseteq r.habits
                           /\ Cardinality(r.habits \ habits) = 1
                           /\ \A h \in r.habits \ habits :
                                /\ h.user_id = u
                                /\ h.habit_name = Strip(t)
                                /\ \A g \in habits : g.id # h.id

\* a second habit has been added
C36_Witness ==
    /\ out = [user |-> 1, reply |-> "habit_created"]
    /\ ActiveFlows(user_data[1]) = {}
    /\ Cardinality({h \in habits : h.user_id = 1}) = 2

\* C37: a session at the note step of the mood flow holds a rating from 1 to
\* 5, a session at change_waketime holds a bedtime that passed the time
\* check, and no row has a missing score or a missing bedtime
C37_ScratchHoldsWhatStepCommits ==
    /\ \A u \in Users :
        LET d == user_data[u]
        IN  /\ (Has(d, "mood_step") /\ d["mood_step"] = "note")
                => (Has(d, "mood_rating") /\ d["mood_rating"] \in 1..5)
            /\ (Has(d, "preferences_mode")
                /\ d["preferences_mode"] = "change_waketime")
                => (Has(d, "new_bedtime") /\ strptime_ok(d["new_bedtime"]))
    /\ \A r \in mood_logs : r.mood_score # NoneInt
    /\ \A u \in DOMAIN users : users[u].bedtime # NoneText

\* one session waits for the waketime while it still holds the note step of
\* a mood flow left open
C37_Witness ==
    /\ PreferencesMode(user_data[1]) = "change_waketime"
    /\ user_data[1]["new_bedtime"] = Txt2230
    /\ Has(user_data[1], "mood_step")
    /\ user_data[1]["mood_step"] = "note"
    /\ user_data[1]["mood_rating"] = 4


\* the rows of the log table that a step from w to r added, removed or
\* rewrote
ChangedLogs(w, r) ==
    (r.habit_logs \ w.habit_logs) \cup (w.habit_logs \ r.habit_logs)

\* C38: a button event, whatever its payload is and whether the write
\* succeeds or not, leaves the session of every user as it was, and of
\* the persisted data it changes at most the log row of the pressing
\* user, the habit named in the payload and today
C38_ButtonKeepsSession ==
    \A u \in Users :
        \A data \in CallbackData(u), ok \in GatewayOutcomes :
            LET r == handle_callback_query(World, u, data, ok)
                parts == Split(data, "_")
            IN  /\ r.ud = user_data
                /\ r.users = users
                /\ r.mood_logs = mood_logs
                /\ r.habits = habits
                /\ Cardinality(r.habit_logs \ habit_logs) <= 1
                /\ Cardinality(habit_logs \ r.habit_logs) <= 1
                /\ \A l \in ChangedLogs(World, r) :
                        /\ l.user_id = u
                        /\ l.date = today
                        /\ StartsWith(data, HabitTogglePrefix)
                        /\ Len(parts) = 4
                        /\ IntParses(parts[3])
                        /\ l.habit_id = IntValue(parts[3])

\* a toggle was just logged for the acting user while the delete step of
\* the habit flow is open in the session
C38_Witness ==
    /\ out = [user |-> 1, reply |-> "habit_progress"]
    /\ HabitStep(user_data[1]) = "delete"
    /\ \E l \in habit_logs : l.user_id = 1 /\ l.date = today


(***************************************************************************)
(* Flows run to their end: the acting user opens a flow only when none is  *)
(* open, and answers each prompt with an input the step accepts that does  *)
(* not bring a menu back up. A write may fail, but not forever.            *)
(***************************************************************************)

\* the step accepts the text: the tests of the handlers, no more
ValidInput(d, raw) ==
    LET text == Strip(raw)
        r == Route(d)
    IN  CASE r = "onboarding" /\ d["onboarding_step"] \in {"bedtime", "waketime"} ->
                valid_time(text)
          [] r = "onboarding" /\ d["onboarding_step"] = "water_target" ->
                valid_water(text)
          [] r = "preferences"
                /\ d["preferences_mode"] \in {"change_bedtime", "change_waketime"} ->
                valid_time(text)
          [] r = "preferences" /\ d["preferences_mode"] = "change_water" ->
                valid_water(text)
          [] r = "mood" /\ d["mood_step"] = "rating" -> valid_rating(text)
          [] OTHER -> ExpectedToken(MenuStep(d), text)

\* the text brings a menu back up: a module toggle shows the module
\* keyboard again, Back shows the habit menu again
ReopensMenu(d, raw) ==
    LET text == Strip(raw)
    IN  \/ MenuStep(d) = "modules" /\ text \in ModuleButtons
        \/ MenuStep(d) = "delete" /\ text = BtnBack

\* of the answers the environment types at the step, those that are valid
\* and do not bring a menu back up
AdvancingTexts(d) ==
    {t \in EnvTexts(d) : ValidInput(d, t) /\ ~ReopensMenu(d, t)}

OpenFlow(u) ==
    /\ Route(user_data[u]) = "none"
    /\ \/ StartCmd(u)
       \/ PreferencesCmd(u)
       \/ MoodCmd(u)
       \/ ids.habit <= MaxHabits /\ HabitsCmd(u)

Answer(u, ok) ==
    /\ Route(user_data[u]) # "none"
    /\ \E text \in AdvancingTexts(user_data[u]) :
          Apply(handle_text_message(World, u, text, ok))
    /\ UNCHANGED Idle

NextLive ==
    \E u \in Actors :
        \/ OpenFlow(u)
        \/ Answer(u, TRUE)
        \/ Answer(u, FALSE)

\* the user keeps answering, and the write of an answer succeeds in the end
Fairness == \A u \in Actors : WF_vars(Answer(u, TRUE))

SpecLive == Init /\ [][NextLive]_vars /\ Fairness

\* the longest flow: name, bedtime, waketime, water_target, modules
MaxSteps == 5

\* some k or fewer advancing texts of user u, each write succeeding, end
\* the flow of u
RECURSIVE CanReset(_, _, _)
CanReset(w, u, k) ==
    \/ Route(w.ud[u]) = "none"
    \/ /\ k > 0
       /\ \E t \in AdvancingTexts(w.ud[u]) :
              CanReset(handle_text_message(w, u, t, TRUE), u, k - 1)

\* C39: in every reachable state the texts of the user can end their flow
\* while the writes succeed, and a user who keeps sending inputs the steps
\* accept, without bringing a menu back up, ends every flow they started
C39_NoDeadEnd ==
    /\ [](\A u \in Users : CanReset(World, u, MaxSteps))
    /\ \A u \in Actors :
          (Route(user_data[u]) # "none") ~> (Route(user_data[u]) = "none")

\* the onboarding of the acting user has run from /start to Done
C39_Witness ==
    /\ out = [user |-> 1, reply |-> "onboarding_complete"]
    /\ Route(user_data[1]) = "none"
    /\ get_user(World, 1)
    /\ users[1].water_target = 4

=============================================================================
